---- MODULE Spec2Model ----
(***************************************************************************)
(* Model of display_icc: the provider operations of the Linux, Windows,    *)
(* macOS and mock providers and the convenience functions built on them.   *)
(* Every handler is one action; the adapter calls it makes are recorded,   *)
(* in call order, in op.trace.                                             *)
(***************************************************************************)
EXTENDS Integers, Sequences, FiniteSets, TLC

VARIABLES platform, config, sys, op

vars == <<platform, config, sys, op>>

(* ------------------------------ bounds --------------------------------- *)

\* most devices / monitors / displays a backend reports
MaxDevices == 2
\* most directory entries the filesystem scan sees
MaxFiles == 2

(* --------------------------- basic values ------------------------------ *)

None == "<none>"

NoError == [kind |-> "NoError", msg |-> ""]

SystemError(m) == [kind |-> "SystemError", msg |-> m]

DisplayNotFound(m) == [kind |-> "DisplayNotFound", msg |-> m]

ProfileNotAvailable(m) == [kind |-> "ProfileNotAvailable", msg |-> m]

ParseError(m) == [kind |-> "ParseError", msg |-> m]

IoError(m) == [kind |-> "IoError", msg |-> m]

\* Result<T, ProfileError>
Ok(v) == [ok |-> TRUE, val |-> v, err |-> NoError]

Err(e) == [ok |-> FALSE, val |-> <<>>, err |-> e]

Display(i, n, p) == [id |-> i, name |-> n, is_primary |-> p]

ProfileInfo(n, d, f, c) ==
    [name |-> n, description |-> d, file_path |-> f, color_space |-> c]

ProfileConfig == [linux_prefer_dbus : BOOLEAN, fallback_enabled : BOOLEAN]

DefaultConfig == [linux_prefer_dbus |-> TRUE, fallback_enabled |-> TRUE]

Range(s) == {s[i] : i \in DOMAIN s}

\* the index of the first element of s satisfying Test, 0 when there is none
RECURSIVE FirstIndex(_, _, _)
FirstIndex(s, Test(_), i) ==
    IF i > Len(s) THEN 0
    ELSE IF Test(s[i]) THEN i
    ELSE FirstIndex(s, Test, i + 1)

(* ------------------------------- bytes --------------------------------- *)

\* the size of an ICC profile header
HeaderSize == 128

\* vec![0u8; n]
Zeros(n) == [i \in 1..n |-> 0]

\* buf[offset..offset + bs.len()].copy_from_slice(bs)
copy_from_slice(buf, offset, bs) ==
    [i \in DOMAIN buf |->
        IF i > offset /\ i <= offset + Len(bs) THEN bs[i - offset] ELSE buf[i]]

\* u32::to_be_bytes
to_be_bytes(n) ==
    <<n \div 16777216, (n \div 65536) % 256, (n \div 256) % 256, n % 256>>

\* the ASCII bytes of the byte-string literals in use
AsciiBytes(str) ==
    CASE str = "RGB " -> <<82, 71, 66, 32>>
      [] str = "Lab " -> <<76, 97, 98, 32>>
      [] str = "XYZ " -> <<88, 89, 90, 32>>
      [] str = "mntr" -> <<109, 110, 116, 114>>
      [] str = "ADBE" -> <<65, 68, 66, 69>>
      [] str = "APPL" -> <<65, 80, 80, 76>>
      [] str = "scnr" -> <<115, 99, 110, 114>>
      [] str = "prtr" -> <<112, 114, 116, 114>>
      [] str = "link" -> <<108, 105, 110, 107>>
      [] str = "spac" -> <<115, 112, 97, 99>>
      [] str = "abst" -> <<97, 98, 115, 116>>
      [] str = "nmcl" -> <<110, 109, 99, 108>>
      [] str = "CMYK" -> <<67, 77, 89, 75>>
      [] str = "Luv " -> <<76, 117, 118, 32>>
      [] str = "YCbr" -> <<89, 67, 98, 114>>
      [] str = "Yxy " -> <<89, 120, 121, 32>>
      [] str = "HSV " -> <<72, 83, 86, 32>>
      [] str = "HLS " -> <<72, 76, 83, 32>>
      [] str = "CMY " -> <<67, 77, 89, 32>>
      [] str = "MSFT" -> <<77, 83, 70, 84>>

\* buf[from..to], offsets counted from 0
Slice(buf, from, to) == SubSeq(buf, from + 1, to)

\* a header-only profile: size, CMM, version 2.1, class mntr, the data colour
\* space, connection space XYZ
MinimalHeader(cmm, space) ==
    copy_from_slice(
      copy_from_slice(
        copy_from_slice(
          copy_from_slice(
            copy_from_slice(
              copy_from_slice(Zeros(HeaderSize), 0, to_be_bytes(HeaderSize)),
              4, AsciiBytes(cmm)),
            8, to_be_bytes(34603008)),
          12, AsciiBytes("mntr")),
        16, AsciiBytes(space)),
      20, AsciiBytes("XYZ "))

\* the header-only profiles in use
AdobeRgbProfile == MinimalHeader("ADBE", "RGB ")

AdobeXyzProfile == MinimalHeader("ADBE", "XYZ ")

AppleRgbProfile == MinimalHeader("APPL", "RGB ")

AppleLabProfile == MinimalHeader("APPL", "Lab ")

(* ----------------------- Linux: the environment ------------------------ *)

DeviceId(i) == <<"d1", "d2", "d3", "d4">>[i]

\* vendor and model strings colord reports for the i-th device
DeviceVendor(i) == IF i = 1 THEN "TestCorp" ELSE ""

DeviceModel(i) == IF i <= 2 THEN "Monitor" ELSE ""

Pids == {"p1", "p2"}

\* the profile lists a device can carry: none, one, or two; get_profile reads
\* the first id only
ProfileLists == {<<>>, <<"p1">>, <<"p2", "p1">>}

ColormgrDevice(i, ps) ==
    [id |-> DeviceId(i), model |-> DeviceModel(i), vendor |-> DeviceVendor(i),
     profiles |-> ps]

\* the display devices known to colord
DeviceLists ==
    UNION {{[i \in 1..n |-> ColormgrDevice(i, f[i])] : f \in [1..n -> ProfileLists]} :
            n \in 0..MaxDevices}

\* what colord knows about each profile id
ColormgrProfile(pid) ==
    IF pid = "p1"
    THEN [id |-> pid, filename |-> "/usr/share/color/icc/sRGB.icc",
          title |-> "sRGB IEC61966-2.1", colorspace |-> "RGB"]
    ELSE [id |-> pid, filename |-> None, title |-> None, colorspace |-> "lab"]

\* directory entries below the scanned profile directories, in read_dir order
DirEntry(i) ==
    <<[path |-> "/usr/share/color/icc/README.txt", ext |-> "txt", stem |-> "README"],
      [path |-> "/usr/share/color/icc/sRGB.icc", ext |-> "icc", stem |-> "sRGB"],
      [path |-> "/usr/share/color/icc/AdobeRGB.icm", ext |-> "icm", stem |-> "AdobeRGB"],
      [path |-> "/var/lib/color/icc/edid.icc", ext |-> "icc", stem |-> "edid"]>>[i]

DirListings == {[i \in 1..k |-> DirEntry(i)] : k \in 0..MaxFiles}

\* answers of calls that the code can never make are held at one value
LinuxSys ==
    {s \in [dbus_support : BOOLEAN, dbus_available : BOOLEAN,
            dbus_devices_ok : BOOLEAN, dbus_profiles_ok : BOOLEAN,
            colormgr : {"ok", "missing", "failed", "bad_utf8"},
            colormgr_profile_ok : BOOLEAN,
            devices : DeviceLists, dir : DirListings, readable : BOOLEAN] :
        /\ (~s.dbus_support => s.dbus_available)
        /\ (~(s.dbus_support /\ s.dbus_available)
               => s.dbus_devices_ok /\ s.dbus_profiles_ok)
        /\ (s.colormgr # "ok" => s.colormgr_profile_ok)}

(* ----------------------- Linux: the adapters --------------------------- *)

FallbackId == "filesystem-fallback"

execute_colormgr(s, cmd_ok) ==
    IF s.colormgr = "missing"
    THEN Err(SystemError("colormgr command not found. Please install colord package."))
    ELSE IF s.colormgr = "failed" \/ ~cmd_ok
    THEN Err(SystemError("colormgr command failed"))
    ELSE IF s.colormgr = "bad_utf8"
    THEN Err(ParseError("Invalid UTF-8 output"))
    ELSE Ok("stdout")

get_colormgr_devices(s) ==
    LET out == execute_colormgr(s, TRUE)
    IN  IF out.ok THEN Ok(s.devices) ELSE out

get_colormgr_profile(s, pid) ==
    LET out == execute_colormgr(s, s.colormgr_profile_ok)
    IN  IF out.ok THEN Ok(ColormgrProfile(pid)) ELSE out

to_lowercase(str) ==
    CASE str = "RGB" -> "rgb"
      [] str = "sRGB" -> "srgb"
      [] str = "LAB" -> "lab"
      [] OTHER -> str

parse_colorspace(colorspace) ==
    LET l == to_lowercase(colorspace)
    IN  IF l \in {"rgb", "srgb"} THEN "RGB"
        ELSE IF l = "lab" THEN "Lab"
        ELSE "Unknown"

is_dbus_available(s) == s.dbus_available

\* variant of should_use_dbus that does not read linux_prefer_dbus
should_use_dbus_unconfigured(s, c) ==
    IF ~s.dbus_support THEN [val |-> FALSE, trace |-> <<>>]
    ELSE [val |-> is_dbus_available(s), trace |-> <<"is_dbus_available">>]

\* value and the probe it cost
should_use_dbus(s, c) ==
    IF ~s.dbus_support THEN [val |-> FALSE, trace |-> <<>>]
    ELSE IF ~c.linux_prefer_dbus THEN [val |-> FALSE, trace |-> <<>>]
    ELSE [val |-> is_dbus_available(s), trace |-> <<"is_dbus_available">>]

get_dbus_devices(s) ==
    IF s.dbus_devices_ok THEN Ok(s.devices)
    ELSE Err(SystemError("D-Bus GetDevices failed"))

get_dbus_profile(s, pid) ==
    IF ~s.dbus_profiles_ok THEN Err(SystemError("D-Bus GetProfiles failed"))
    ELSE IF pid \in Pids THEN Ok(ColormgrProfile(pid))
    ELSE Err(ProfileNotAvailable("Profile not found via D-Bus"))

\* variant of IsProfileFile that takes every directory entry
IsAnyFile(e) == TRUE

IsProfileFile(e) == e.ext \in {"icc", "icm"}

scan_filesystem_profiles(s) == Ok(SelectSeq(s.dir, IsProfileFile))

DisplayLabel(index) == <<"Display 1", "Display 2", "Display 3", "Display 4">>[index]

\* format!("{} {}", vendor, model) on the vendor and model strings in use
JoinName(vendor, model) ==
    IF vendor = "TestCorp" /\ model = "Monitor" THEN "TestCorp Monitor"
    ELSE "? ?"

display_name(device, index) ==
    IF device.model # ""
    THEN IF device.vendor # ""
         THEN JoinName(device.vendor, device.model)
         ELSE device.model
    ELSE DisplayLabel(index)

\* variants of first_is_primary: every device, and the second device
first_is_primary_all(index) == TRUE

first_is_primary_second(index) == index = 2

first_is_primary(index) == index = 1

convert_devices_to_displays(devices) ==
    LET displays == [i \in 1..Len(devices) |->
                        Display(devices[i].id, display_name(devices[i], i),
                                first_is_primary(i))]
    IN  IF Len(displays) = 0
        THEN Err(SystemError("No display devices found"))
        ELSE Ok(displays)

FallbackDisplay == Display(FallbackId, "Generic Display", TRUE)

DbusDisabledError == SystemError("D-Bus method failed and fallback is disabled")

\* variant of dbus_gives_up that always falls through to colormgr
dbus_gives_up_never(c) == FALSE

\* the check after a failed D-Bus attempt: give up unless fallback is enabled
dbus_gives_up(c) == ~c.fallback_enabled

\* variant of colormgr_get_displays that runs the command again after it failed
colormgr_get_displays_retrying(s, c) ==
    LET cm == get_colormgr_devices(s)
    IN  IF cm.ok
        THEN [res |-> convert_devices_to_displays(cm.val),
              trace |-> <<"get_colormgr_devices">>]
        ELSE [res |-> cm, trace |-> <<"get_colormgr_devices", "get_colormgr_devices">>]

\* get_displays from the colormgr command on: colormgr, then the directory scan
colormgr_get_displays(s, c) ==
    LET cm == get_colormgr_devices(s)
        files == scan_filesystem_profiles(s)
    IN  IF cm.ok
        THEN [res |-> convert_devices_to_displays(cm.val),
              trace |-> <<"get_colormgr_devices">>]
        ELSE IF ~c.fallback_enabled
        THEN [res |-> cm, trace |-> <<"get_colormgr_devices">>]
        ELSE [res |-> IF files.ok /\ Len(files.val) > 0
                      THEN Ok(<<FallbackDisplay>>)
                      ELSE Err(SystemError("No display devices found via any method")),
              trace |-> <<"get_colormgr_devices", "scan_filesystem_profiles">>]

linux_get_displays(s, c) ==
    LET u == should_use_dbus(s, c)
        dd == get_dbus_devices(s)
        cm == colormgr_get_displays(s, c)
    IN  IF u.val
        THEN IF dd.ok
             THEN [res |-> convert_devices_to_displays(dd.val),
                   trace |-> u.trace \o <<"get_dbus_devices">>]
             ELSE IF dbus_gives_up(c)
             THEN [res |-> Err(DbusDisabledError),
                   trace |-> u.trace \o <<"get_dbus_devices">>]
             ELSE [res |-> cm.res,
                   trace |-> u.trace \o <<"get_dbus_devices">> \o cm.trace]
        ELSE [res |-> cm.res, trace |-> u.trace \o cm.trace]

\* variant of find_primary that takes the last display
find_last(displays) == Len(displays)

\* displays.into_iter().find(|d| d.is_primary): its index, 0 for no match
find_primary(displays) == FirstIndex(displays, LAMBDA d : d.is_primary, 1)

linux_get_primary_display(s, c) ==
    LET r == linux_get_displays(s, c)
        i == IF r.res.ok THEN find_primary(r.res.val) ELSE 0
    IN  IF ~r.res.ok THEN r
        ELSE IF i = 0
        THEN [res |-> Err(DisplayNotFound("No primary display found")), trace |-> r.trace]
        ELSE [res |-> Ok(r.res.val[i]), trace |-> r.trace]

\* variant of first_profile that takes the last id the device reports
last_profile(device) == device.profiles[Len(device.profiles)]

\* the profile id get_profile resolves for a device that has profiles
first_profile(device) == device.profiles[1]

profile_name(profile) == IF profile.title # None THEN profile.title ELSE profile.id

colormgr_profile_info(profile) ==
    ProfileInfo(profile_name(profile), None, profile.filename,
                parse_colorspace(profile.colorspace))

\* the filesystem-fallback case at the head of get_profile
fallback_get_profile(s, display) ==
    LET files == scan_filesystem_profiles(s)
    IN  IF display.id # FallbackId
        THEN [done |-> FALSE, res |-> Err(NoError), trace |-> <<>>]
        ELSE IF files.ok /\ Len(files.val) > 0
        THEN [done |-> TRUE,
              res |-> Ok(ProfileInfo(files.val[1].stem, None, files.val[1].path,
                                     "Unknown")),
              trace |-> <<"scan_filesystem_profiles">>]
        ELSE IF files.ok
        THEN [done |-> FALSE, res |-> Err(NoError),
              trace |-> <<"scan_filesystem_profiles">>]
        ELSE [done |-> TRUE, res |-> files, trace |-> <<"scan_filesystem_profiles">>]

\* the D-Bus attempt of get_profile: done when it produced the profile
dbus_get_profile(s, display) ==
    LET dd == get_dbus_devices(s)
        i == IF dd.ok THEN FirstIndex(dd.val, LAMBDA d : d.id = display.id, 1) ELSE 0
        gp == get_dbus_profile(s, first_profile(dd.val[i]))
    IN  IF ~dd.ok \/ i = 0
        THEN [done |-> FALSE, res |-> Err(NoError), trace |-> <<"get_dbus_devices">>]
        ELSE IF Len(dd.val[i].profiles) = 0
        THEN [done |-> FALSE, res |-> Err(NoError), trace |-> <<"get_dbus_devices">>]
        ELSE IF gp.ok
        THEN [done |-> TRUE, res |-> Ok(colormgr_profile_info(gp.val)),
              trace |-> <<"get_dbus_devices", "get_dbus_profile">>]
        ELSE [done |-> FALSE, res |-> Err(NoError),
              trace |-> <<"get_dbus_devices", "get_dbus_profile">>]

\* variant of dbus_profile_gives_up that never falls through to colormgr
dbus_profile_gives_up_always(c) == TRUE

\* the check after a failed D-Bus attempt of get_profile
dbus_profile_gives_up(c) == ~c.fallback_enabled

\* get_profile from the colormgr command on
colormgr_get_profile(s, display) ==
    LET cm == get_colormgr_devices(s)
        i == IF cm.ok THEN FirstIndex(cm.val, LAMBDA d : d.id = display.id, 1) ELSE 0
        cp == get_colormgr_profile(s, first_profile(cm.val[i]))
    IN  IF ~cm.ok
        THEN [res |-> cm, trace |-> <<"get_colormgr_devices">>]
        ELSE IF i = 0
        THEN [res |-> Err(DisplayNotFound(display.id)),
              trace |-> <<"get_colormgr_devices">>]
        ELSE IF Len(cm.val[i].profiles) = 0
        THEN [res |-> Err(ProfileNotAvailable(display.id)),
              trace |-> <<"get_colormgr_devices">>]
        ELSE IF ~cp.ok
        THEN [res |-> cp, trace |-> <<"get_colormgr_devices", "get_colormgr_profile">>]
        ELSE [res |-> Ok(colormgr_profile_info(cp.val)),
              trace |-> <<"get_colormgr_devices", "get_colormgr_profile">>]

linux_get_profile(s, c, display) ==
    LET fb == fallback_get_profile(s, display)
        u == should_use_dbus(s, c)
        db == dbus_get_profile(s, display)
        cm == colormgr_get_profile(s, display)
    IN  IF fb.done THEN [res |-> fb.res, trace |-> fb.trace]
        ELSE IF u.val
        THEN IF db.done
             THEN [res |-> db.res, trace |-> fb.trace \o u.trace \o db.trace]
             ELSE IF dbus_profile_gives_up(c)
             THEN [res |-> Err(DbusDisabledError),
                   trace |-> fb.trace \o u.trace \o db.trace]
             ELSE [res |-> cm.res,
                   trace |-> fb.trace \o u.trace \o db.trace \o cm.trace]
        ELSE [res |-> cm.res, trace |-> fb.trace \o u.trace \o cm.trace]

\* std::fs::read of a profile file: its bytes, as a value naming the file
FileBytes(path) == [bytes_of |-> path]

load_profile_data(s, file_path) ==
    IF s.readable THEN Ok(FileBytes(file_path))
    ELSE Err(IoError("read failed"))

\* format!("No file path available for display {}", display.id)
NoFilePathMessage(id) ==
    CASE id = "d1" -> "No file path available for display d1"
      [] id = "d2" -> "No file path available for display d2"
      [] id = "d3" -> "No file path available for display d3"
      [] OTHER -> "No file path available for display ?"

\* variant of no_file_path that reports the missing path as an I/O error
no_file_path_io(display) == IoError(NoFilePathMessage(display.id))

\* the error of file_path.ok_or_else
no_file_path(display) == ProfileNotAvailable(NoFilePathMessage(display.id))

\* variant of linux_data_of that reports every failure of get_profile as
\* ProfileNotAvailable for the display
linux_data_of_wrapping(s, display, r) ==
    IF ~r.res.ok
    THEN [res |-> Err(ProfileNotAvailable(display.id)), trace |-> r.trace]
    ELSE IF r.res.val.file_path = None
    THEN [res |-> Err(no_file_path(display)), trace |-> r.trace]
    ELSE [res |-> load_profile_data(s, r.res.val.file_path),
          trace |-> r.trace \o <<"load_profile_data">>]

\* get_profile_data after get_profile has answered r
linux_data_of(s, display, r) ==
    IF ~r.res.ok THEN r
    ELSE IF r.res.val.file_path = None
    THEN [res |-> Err(no_file_path(display)), trace |-> r.trace]
    ELSE [res |-> load_profile_data(s, r.res.val.file_path),
          trace |-> r.trace \o <<"load_profile_data">>]

linux_get_profile_data(s, c, display) ==
    linux_data_of(s, display, linux_get_profile(s, c, display))

UnknownId == "no-such-display"

\* the Display values a caller passes to a Linux provider
LinuxDisplayArgs ==
    {Display(DeviceId(i), display_name(ColormgrDevice(i, <<>>), i), first_is_primary(i)) :
        i \in 1..MaxDevices}
    \cup {FallbackDisplay, Display(UnknownId, "Gone", FALSE)}

(* ------------------------------ Windows -------------------------------- *)

MonitorName(i) == <<"DISPLAY1", "DISPLAY2", "DISPLAY3", "DISPLAY4">>[i]

MonitorId(index) == <<"monitor_0", "monitor_1", "monitor_2", "monitor_3">>[index]

\* the monitors Windows hands to monitor_enum_proc: one of them carries
\* MONITORINFOF_PRIMARY; info_ok is the outcome of GetMonitorInfoA for it
OsMonitorLists ==
    UNION {{[i \in 1..n |-> [name |-> MonitorName(i), is_primary |-> (i = p),
                              info_ok |-> f[i]]] :
                p \in 1..n, f \in [1..n -> BOOLEAN]} : n \in 1..MaxDevices}
    \cup {<<>>}

\* the profile files that may lie in the colour directory, in read_dir order:
\* the one GetICMProfileA names, the one the registry lists, one of the common
\* profile names, and one more
AssocName == "monitor.icm"

RegistryName == "registry.icm"

CommonName == "sRGB Color Space Profile.icm"

OtherName == "custom.icc"

WinFiles == <<OtherName, AssocName, RegistryName, CommonName>>

\* color_dir.join(name)
WinPath(name) ==
    CASE name = OtherName -> "color/custom.icc"
      [] name = AssocName -> "color/monitor.icm"
      [] name = RegistryName -> "color/registry.icm"
      [] name = CommonName -> "color/sRGB Color Space Profile.icm"

\* the contents of each file: full headers of three colour spaces, and a file
\* too short to hold a header
WinFileData(name) ==
    CASE name = OtherName -> AdobeXyzProfile
      [] name = AssocName -> AdobeRgbProfile
      [] name = RegistryName -> AppleLabProfile
      [] name = CommonName -> to_be_bytes(4)

FileStates == {"absent", "unreadable", "readable"}

\* answers that no call can observe are held at one value: nothing is read
\* once enumeration fails, no file is looked up without the colour directory;
\* the file GetICMProfileA or the registry would name is left out when they
\* name none
WindowsSys ==
    {s \in [enum_ok : BOOLEAN, os_monitors : OsMonitorLists,
            icm : {"ok", "none", "no_dc", "bad_name"},
            color_dir : BOOLEAN, registry : BOOLEAN,
            files : [Range(WinFiles) -> FileStates]] :
        /\ ~s.enum_ok
              => /\ s.os_monitors = <<>>
                 /\ s.icm = "ok"
                 /\ ~s.color_dir
        /\ ~s.color_dir
              => /\ ~s.registry
                 /\ \A n \in Range(WinFiles) : s.files[n] = "absent"
        /\ s.icm # "ok" => s.files[AssocName] = "absent"
        /\ ~s.registry => s.files[RegistryName] = "absent"}

\* monitor_enum_proc skips a monitor whose GetMonitorInfoA call fails
monitor_enum_proc(m) == m.info_ok

enumerate_monitors(s) ==
    IF ~s.enum_ok THEN Err(SystemError("Failed to enumerate monitors"))
    ELSE Ok(SelectSeq(s.os_monitors, monitor_enum_proc))

windows_get_displays(s, c) ==
    LET monitors == enumerate_monitors(s)
    IN  IF ~monitors.ok
        THEN [res |-> monitors, trace |-> <<"enumerate_monitors">>]
        ELSE [res |-> Ok([i \in 1..Len(monitors.val) |->
                            Display(MonitorId(i), monitors.val[i].name,
                                    monitors.val[i].is_primary)]),
              trace |-> <<"enumerate_monitors">>]

windows_get_primary_display(s, c) ==
    LET monitors == enumerate_monitors(s)
        i == IF monitors.ok
             THEN FirstIndex(monitors.val, LAMBDA m : m.is_primary, 1) ELSE 0
    IN  IF ~monitors.ok
        THEN [res |-> monitors, trace |-> <<"enumerate_monitors">>]
        ELSE IF i > 0
        THEN [res |-> Ok(Display(MonitorId(i), monitors.val[i].name, TRUE)),
              trace |-> <<"enumerate_monitors">>]
        ELSE IF Len(monitors.val) > 0
        THEN [res |-> Ok(Display("monitor_0", monitors.val[1].name, TRUE)),
              trace |-> <<"enumerate_monitors">>]
        ELSE [res |-> Err(DisplayNotFound("No displays found")),
              trace |-> <<"enumerate_monitors">>]

get_color_directory(s) ==
    IF s.color_dir THEN Ok("color")
    ELSE Err(SystemError("Windows color directory not found"))

\* GetDC and GetICMProfileA, whatever the monitor
get_monitor_profile(s) ==
    CASE s.icm = "ok" -> Ok(AssocName)
      [] s.icm = "none" -> Err(ProfileNotAvailable("No profile associated with monitor"))
      [] s.icm = "no_dc" -> Err(SystemError("Failed to get device context"))
      [] s.icm = "bad_name" -> Err(ParseError("Invalid profile name"))

\* the registry lists one profile name or none
query_registry_for_profiles(s) ==
    IF s.registry THEN Ok(<<RegistryName>>) ELSE Ok(<<>>)

path_exists(s, name) == s.files[name] # "absent"

\* std::fs::read(color_dir.join(name))
read_file(s, name) ==
    IF s.files[name] = "readable" THEN Ok(WinFileData(name))
    ELSE Err(IoError("read failed"))

\* windows.rs parse_icc_header: a fixed name and the data colour space
windows_parse_icc_header(data) ==
    IF Len(data) < HeaderSize
    THEN Err(ParseError("ICC profile too small to contain valid header"))
    ELSE Ok([name |-> "Windows Display Profile", description |-> None,
             color_space |->
                 IF Slice(data, 16, 20) = AsciiBytes("RGB ") THEN "RGB"
                 ELSE IF Slice(data, 16, 20) = AsciiBytes("Lab ") THEN "Lab"
                 ELSE "Unknown"])

\* the ProfileInfo built from a file that was read: parse_icc_header's answer,
\* or (profile_name, None, Unknown) when the header does not parse
profile_from_file(s, name) ==
    LET h == windows_parse_icc_header(read_file(s, name).val)
    IN  IF h.ok
        THEN ProfileInfo(h.val.name, h.val.description, WinPath(name), h.val.color_space)
        ELSE ProfileInfo(name, None, WinPath(name), "Unknown")

\* a loop over candidate names: the first that exists and can be read ends it;
\* names tried are logged
RECURSIVE try_candidates(_, _, _, _)
try_candidates(s, names, i, trace) ==
    IF i > Len(names) THEN [found |-> FALSE, name |-> "", trace |-> trace]
    ELSE IF ~path_exists(s, names[i]) THEN try_candidates(s, names, i + 1, trace)
    ELSE IF read_file(s, names[i]).ok
    THEN [found |-> TRUE, name |-> names[i], trace |-> Append(trace, names[i])]
    ELSE try_candidates(s, names, i + 1, Append(trace, names[i]))

common_profiles ==
    <<"sRGB Color Space Profile.icm", "Adobe RGB (1998).icc", "ProPhoto RGB.icc",
      "Display.icc", "Generic RGB Profile.icc">>

\* the common names that name a file of the modelled directory
KnownCommon == SelectSeq(common_profiles, LAMBDA n : n \in Range(WinFiles))

\* every file of the directory has extension icc or icm
scan_color_directory(s) ==
    IF ~get_color_directory(s).ok THEN get_color_directory(s)
    ELSE Ok(SelectSeq(WinFiles, LAMBDA n : path_exists(s, n)))

enum_color_profiles(s) ==
    IF ~get_color_directory(s).ok THEN get_color_directory(s)
    ELSE Ok(SelectSeq(WinFiles, LAMBDA n : path_exists(s, n)))

DefaultSrgb ==
    ProfileInfo("Default sRGB", "Default sRGB color space (fallback)", None, "RGB")

\* steps 2 to 4 of fallback_get_profile
windows_fallback_tail(s, trace) ==
    LET dir == get_color_directory(s)
        common == try_candidates(s, KnownCommon, 1, trace)
        scan == scan_color_directory(s)
        scanned == try_candidates(s, scan.val, 1, Append(common.trace, "scan_color_directory"))
        listed == enum_color_profiles(s)
        last == try_candidates(s, listed.val, 1,
                               common.trace \o <<"scan_color_directory", "enum_color_profiles">>)
    IN  IF ~dir.ok THEN [res |-> dir, trace |-> trace]
        ELSE IF common.found
        THEN [res |-> Ok(profile_from_file(s, common.name)), trace |-> common.trace]
        ELSE IF scan.ok
        THEN IF scanned.found
             THEN [res |-> Ok(profile_from_file(s, scanned.name)), trace |-> scanned.trace]
             ELSE [res |-> Err(ProfileNotAvailable("No valid profiles found in directory scan")),
                   trace |-> scanned.trace]
        ELSE IF listed.ok /\ last.found
        THEN [res |-> Ok(profile_from_file(s, last.name)), trace |-> last.trace]
        ELSE [res |-> Ok(DefaultSrgb),
              trace |-> common.trace \o <<"scan_color_directory", "enum_color_profiles">>]

windows_fallback_get_profile(s) ==
    LET reg == query_registry_for_profiles(s)
        dir == get_color_directory(s)
        first == try_candidates(s, reg.val, 1, <<"query_registry_for_profiles">>)
    IN  IF reg.ok /\ ~dir.ok
        THEN [res |-> dir, trace |-> <<"query_registry_for_profiles">>]
        ELSE IF reg.ok /\ first.found
        THEN [res |-> Ok(profile_from_file(s, first.name)), trace |-> first.trace]
        ELSE windows_fallback_tail(s, IF reg.ok THEN first.trace
                                      ELSE <<"query_registry_for_profiles">>)

\* display.id.strip_prefix("monitor_") parsed as usize, counted from 1; 0 when
\* the id does not parse
monitor_index(id) ==
    CASE id = "monitor_0" -> 1
      [] id = "monitor_1" -> 2
      [] id = "monitor_2" -> 3
      [] id = "monitor_3" -> 4
      [] OTHER -> 0

\* get_profile once the monitor is found
windows_monitor_profile(s, c, display) ==
    LET mp == get_monitor_profile(s)
        dir == get_color_directory(s)
        fb == windows_fallback_get_profile(s)
        t == <<"enumerate_monitors", "get_monitor_profile">>
    IN  IF mp.ok
        THEN IF ~dir.ok THEN [res |-> dir, trace |-> t]
             ELSE IF path_exists(s, mp.val)
             THEN IF read_file(s, mp.val).ok
                  THEN [res |-> Ok(profile_from_file(s, mp.val)),
                        trace |-> Append(t, mp.val)]
                  ELSE [res |-> Ok(ProfileInfo(mp.val, None, WinPath(mp.val), "Unknown")),
                        trace |-> Append(t, mp.val)]
             ELSE IF c.fallback_enabled
             THEN [res |-> fb.res, trace |-> t \o fb.trace]
             ELSE [res |-> Err(ProfileNotAvailable(display.id)), trace |-> t]
        ELSE IF c.fallback_enabled
        THEN [res |-> fb.res, trace |-> t \o fb.trace]
        ELSE [res |-> mp, trace |-> t]

windows_get_profile(s, c, display) ==
    LET monitors == enumerate_monitors(s)
        i == monitor_index(display.id)
    IN  IF ~monitors.ok
        THEN [res |-> monitors, trace |-> <<"enumerate_monitors">>]
        ELSE IF i = 0 \/ i > Len(monitors.val)
        THEN [res |-> Err(DisplayNotFound(display.id)), trace |-> <<"enumerate_monitors">>]
        ELSE windows_monitor_profile(s, c, display)

\* the file a path of the colour directory names
file_at(path) == CHOOSE n \in Range(WinFiles) : WinPath(n) = path

read_profile_file(s, profile_path) == read_file(s, file_at(profile_path))

\* get_profile_data after get_profile has answered r
windows_data_of(s, r) ==
    IF ~r.res.ok THEN r
    ELSE IF r.res.val.file_path # None
    THEN [res |-> read_profile_file(s, r.res.val.file_path),
          trace |-> Append(r.trace, "read_profile_file")]
    ELSE [res |-> Err(ProfileNotAvailable("Profile file path not available")),
          trace |-> r.trace]

windows_get_profile_data(s, c, display) ==
    windows_data_of(s, windows_get_profile(s, c, display))

\* the Display values a caller passes to a Windows provider
WindowsDisplayArgs ==
    {Display(MonitorId(i), MonitorName(i), FALSE) : i \in 1..MaxDevices}
    \cup {Display(UnknownId, "Gone", FALSE)}

(* ------------------------------- macOS --------------------------------- *)

\* u32::to_string on the CGDirectDisplayIDs in use
DisplayIdString(id) == <<"1", "2", "3", "4">>[id]

ExternalName(id) ==
    <<"External Display 1", "External Display 2", "External Display 3",
      "External Display 4">>[id]

\* the active display list, ascending or descending, and the main display,
\* which is one of the active displays
MacDisplaySystems ==
    UNION {{[list_ok |-> ok, active |-> a, main |-> m] :
                ok \in BOOLEAN,
                a \in {[i \in 1..n |-> i], [i \in 1..n |-> n + 1 - i]},
                m \in 1..n} : n \in 1..MaxDevices}
    \cup {[list_ok |-> ok, active |-> <<>>, main |-> 1] : ok \in BOOLEAN}

\* what CoreGraphics answers about a display's colour space: whether
\* CGDisplayCopyColorSpace returns one, the name CGColorSpaceCopyName gives
\* and the data CGColorSpaceCopyICCData gives; the last two are held at one
\* value when there is no colour space to ask
MacColorSystems ==
    {k \in [cs_ok : BOOLEAN, cs_name : {"named", "blank", "null"},
            icc : {"null", "rgb", "lab", "short"}] :
        ~k.cs_ok => (k.cs_name = "named" /\ k.icc = "rgb")}

MacSys ==
    {[list_ok |-> d.list_ok, active |-> d.active, main |-> d.main,
      cs_ok |-> k.cs_ok, cs_name |-> k.cs_name, icc |-> k.icc] :
        d \in MacDisplaySystems, k \in MacColorSystems}

get_active_displays(s) ==
    IF ~s.list_ok THEN Err(SystemError("CGGetActiveDisplayList failed"))
    ELSE IF Len(s.active) = 0 THEN Err(SystemError("No active displays found"))
    ELSE Ok(s.active)

CGDisplayIsMain(s, id) == id = s.main

get_display_name(s, id) ==
    IF CGDisplayIsMain(s, id) THEN "Built-in Display" ELSE ExternalName(id)

macos_get_displays(s, c) ==
    LET ids == get_active_displays(s)
    IN  IF ~ids.ok
        THEN [res |-> ids, trace |-> <<"get_active_displays">>]
        ELSE [res |-> Ok([i \in 1..Len(ids.val) |->
                            Display(DisplayIdString(ids.val[i]),
                                    get_display_name(s, ids.val[i]),
                                    CGDisplayIsMain(s, ids.val[i]))]),
              trace |-> <<"get_active_displays">>]

macos_get_primary_display(s, c) ==
    [res |-> Ok(Display(DisplayIdString(s.main), get_display_name(s, s.main), TRUE)),
     trace |-> <<"CGMainDisplayID">>]

\* display.id.parse::<u32>(): the number, 0 when the id does not parse
parse_display_id(id) ==
    CASE id = "1" -> 1
      [] id = "2" -> 2
      [] id = "3" -> 3
      [] id = "4" -> 4
      [] OTHER -> 0

\* format!("Display {}", display_id)
DisplayMessage(id) == <<"Display 1", "Display 2", "Display 3", "Display 4">>[id]

copy_display_color_space(s, display_id) ==
    IF s.cs_ok THEN Ok("color space")
    ELSE Err(ProfileNotAvailable(DisplayMessage(display_id)))

copy_icc_data_from_color_space(s) ==
    CASE s.icc = "null" -> Err(ProfileNotAvailable("No ICC data available"))
      [] s.icc = "rgb" -> Ok(AppleRgbProfile \o <<1, 2, 3>>)
      [] s.icc = "lab" -> Ok(AppleLabProfile)
      [] s.icc = "short" -> Ok(to_be_bytes(4))

copy_color_space_name(s) ==
    IF s.cs_name = "named" THEN Ok("DELL U2720Q") ELSE Ok("Display Profile")

determine_color_space(icc_data) ==
    IF Len(icc_data) < 20 THEN "Unknown"
    ELSE IF Slice(icc_data, 16, 20) = AsciiBytes("RGB ") THEN "RGB"
    ELSE IF Slice(icc_data, 16, 20) = AsciiBytes("Lab ") THEN "Lab"
    ELSE "Unknown"

\* variant of srgb whose header leaves the profile size unset
srgb_without_size ==
    [name |-> "sRGB IEC61966-2.1", description |-> "Standard RGB color space",
     color_space |-> "RGB",
     icc_data |-> copy_from_slice(AdobeRgbProfile, 0, to_be_bytes(0))]

\* AppleDisplayProfile::srgb, display_p3 and color_lcd
srgb ==
    [name |-> "sRGB IEC61966-2.1", description |-> "Standard RGB color space",
     color_space |-> "RGB", icc_data |-> AdobeRgbProfile]

display_p3 ==
    [name |-> "Display P3", description |-> "Display P3 color space",
     color_space |-> "RGB", icc_data |-> AppleRgbProfile]

color_lcd ==
    [name |-> "Color LCD", description |-> "Apple Color LCD profile",
     color_space |-> "RGB", icc_data |-> AppleRgbProfile]

\* display.name.contains("Built-in") on the display names in use
contains_built_in(name) == name = "Built-in Display"

\* variant of get_fallback_profile that answers sRGB for every display
get_fallback_profile_srgb(display) == srgb

get_fallback_profile(display) ==
    IF display.is_primary /\ contains_built_in(display.name) THEN color_lcd ELSE srgb

fallback_profile_info(display) ==
    LET fallback == get_fallback_profile(display)
    IN  ProfileInfo(fallback.name, fallback.description, None, fallback.color_space)

\* format!("Color profile for {}", display.name)
ColorProfileFor(name) ==
    CASE name = "Built-in Display" -> "Color profile for Built-in Display"
      [] name = "External Display 1" -> "Color profile for External Display 1"
      [] name = "External Display 2" -> "Color profile for External Display 2"
      [] name = "External Display 3" -> "Color profile for External Display 3"
      [] OTHER -> "Color profile for ?"

get_profile_with_fallback(s, display, c) ==
    LET display_id == parse_display_id(display.id)
        cs == copy_display_color_space(s, display_id)
        data == copy_icc_data_from_color_space(s)
        t == <<"copy_display_color_space">>
    IN  IF display_id = 0
        THEN IF c.fallback_enabled
             THEN [res |-> Ok(fallback_profile_info(display)), trace |-> <<>>]
             ELSE [res |-> Err(DisplayNotFound(display.id)), trace |-> <<>>]
        ELSE IF cs.ok
        THEN [res |-> Ok(ProfileInfo(copy_color_space_name(s).val,
                                     ColorProfileFor(display.name), None,
                                     IF data.ok THEN determine_color_space(data.val)
                                     ELSE "RGB")),
              trace |-> t \o <<"copy_color_space_name", "copy_icc_data_from_color_space">>]
        ELSE IF c.fallback_enabled
        THEN [res |-> Ok(fallback_profile_info(display)), trace |-> t]
        ELSE [res |-> cs, trace |-> t]

get_profile_data_with_fallback(s, display, c) ==
    LET display_id == parse_display_id(display.id)
        cs == copy_display_color_space(s, display_id)
        data == copy_icc_data_from_color_space(s)
        t == <<"copy_display_color_space">>
        fallback == get_fallback_profile(display)
    IN  IF display_id = 0
        THEN IF c.fallback_enabled
             THEN [res |-> Ok(fallback.icc_data), trace |-> <<>>]
             ELSE [res |-> Err(DisplayNotFound(display.id)), trace |-> <<>>]
        ELSE IF cs.ok
        THEN IF data.ok
             THEN [res |-> data, trace |-> Append(t, "copy_icc_data_from_color_space")]
             ELSE IF c.fallback_enabled
             THEN [res |-> Ok(fallback.icc_data),
                   trace |-> Append(t, "copy_icc_data_from_color_space")]
             ELSE [res |-> data, trace |-> Append(t, "copy_icc_data_from_color_space")]
        ELSE IF ~c.fallback_enabled
        THEN [res |-> Err(ProfileNotAvailable(display.id)), trace |-> t]
        ELSE [res |-> Ok(fallback.icc_data), trace |-> t]

macos_get_profile(s, c, display) == get_profile_with_fallback(s, display, c)

macos_get_profile_data(s, c, display) == get_profile_data_with_fallback(s, display, c)

\* the Display values a caller passes to a macOS provider
MacDisplayArgs ==
    {Display(DisplayIdString(i), "Built-in Display", TRUE) : i \in 1..MaxDevices}
    \cup {Display(DisplayIdString(i), ExternalName(i), FALSE) : i \in 1..MaxDevices}
    \cup {Display(UnknownId, "Built-in Display", TRUE), Display(UnknownId, "Gone", FALSE)}

(* ---------------------------- mock provider ---------------------------- *)

MockId(i) == <<"m1", "m2", "m3", "m4">>[i]

MockIds == {MockId(i) : i \in 1..MaxDevices}

MockDisplayLists ==
    UNION {{[i \in 1..n |-> Display(MockId(i), "Mock Display", f[i])] :
                f \in [1..n -> BOOLEAN]} : n \in 0..MaxDevices}

MockErrors == {NoError, SystemError("Mock error"), ProfileNotAvailable("mock")}

\* should_fail maps a method name or a display id to the error to return; the
\* profile of a display whose lookup is set to fail is never read
MockSys ==
    {s \in [displays : MockDisplayLists, profiles : SUBSET MockIds,
            should_fail : [{"get_displays", "get_primary_display"} \cup MockIds
                              -> MockErrors]] :
        /\ s.should_fail["get_displays"].kind # "ProfileNotAvailable"
        /\ s.should_fail["get_primary_display"].kind # "ProfileNotAvailable"
        /\ \A id \in MockIds : s.should_fail[id] # NoError => id \notin s.profiles}

mock_get_displays(s, c) ==
    IF s.should_fail["get_displays"] # NoError
    THEN [res |-> Err(s.should_fail["get_displays"]), trace |-> <<>>]
    ELSE [res |-> Ok(s.displays), trace |-> <<>>]

mock_get_primary_display(s, c) ==
    LET i == FirstIndex(s.displays, LAMBDA d : d.is_primary, 1)
    IN  IF s.should_fail["get_primary_display"] # NoError
        THEN [res |-> Err(s.should_fail["get_primary_display"]), trace |-> <<>>]
        ELSE IF i = 0
        THEN [res |-> Err(DisplayNotFound("No primary display found")), trace |-> <<>>]
        ELSE [res |-> Ok(s.displays[i]), trace |-> <<>>]

MockProfile(id) == ProfileInfo(id, None, None, "RGB")

mock_get_profile(s, c, display) ==
    IF display.id \in DOMAIN s.should_fail /\ s.should_fail[display.id] # NoError
    THEN [res |-> Err(s.should_fail[display.id]), trace |-> <<>>]
    ELSE IF display.id \in s.profiles
    THEN [res |-> Ok(MockProfile(display.id)), trace |-> <<>>]
    ELSE [res |-> Err(ProfileNotAvailable(display.id)), trace |-> <<>>]

MockDisplayArgs ==
    {Display(id, "Mock Display", p) : id \in MockIds \cup {UnknownId}, p \in {FALSE}}

(* ------------------- the provider trait and lib.rs --------------------- *)

Platforms == {"linux", "windows", "macos", "mock"}

SysOf(p) ==
    CASE p = "linux" -> LinuxSys
      [] p = "windows" -> WindowsSys
      [] p = "macos" -> MacSys
      [] p = "mock" -> MockSys

get_displays(p, s, c) ==
    CASE p = "linux" -> linux_get_displays(s, c)
      [] p = "windows" -> windows_get_displays(s, c)
      [] p = "macos" -> macos_get_displays(s, c)
      [] p = "mock" -> mock_get_displays(s, c)

get_primary_display(p, s, c) ==
    CASE p = "linux" -> linux_get_primary_display(s, c)
      [] p = "windows" -> windows_get_primary_display(s, c)
      [] p = "macos" -> macos_get_primary_display(s, c)
      [] p = "mock" -> mock_get_primary_display(s, c)

\* the providers whose get_profile is modelled
ProfilePlatforms == {"linux", "windows", "macos", "mock"}

get_profile(p, s, c, display) ==
    CASE p = "linux" -> linux_get_profile(s, c, display)
      [] p = "windows" -> windows_get_profile(s, c, display)
      [] p = "macos" -> macos_get_profile(s, c, display)
      [] p = "mock" -> mock_get_profile(s, c, display)

\* the providers whose get_profile_data is modelled
DataPlatforms == {"linux", "windows", "macos"}

get_profile_data(p, s, c, display) ==
    CASE p = "linux" -> linux_get_profile_data(s, c, display)
      [] p = "windows" -> windows_get_profile_data(s, c, display)
      [] p = "macos" -> macos_get_profile_data(s, c, display)

DisplayArgs(p) ==
    CASE p = "linux" -> LinuxDisplayArgs
      [] p = "windows" -> WindowsDisplayArgs
      [] p = "macos" -> MacDisplayArgs
      [] p = "mock" -> MockDisplayArgs

\* the configurations a provider is built with: a field the provider never
\* reads is held at its default
ConfigsOf(p) ==
    CASE p = "linux" -> ProfileConfig
      [] p \in {"windows", "macos"} -> {c \in ProfileConfig : c.linux_prefer_dbus}
      [] p = "mock" -> {DefaultConfig}

\* variant of skip_display that skips on every error
skip_display_any(e) == TRUE

\* Err(ProfileError::ProfileNotAvailable(_)) => continue
skip_display(e) == e.kind = "ProfileNotAvailable"

\* variant of push_result that inserts at the front
push_result_front(results, display, profile) ==
    <<[display |-> display, profile |-> profile]>> \o results

\* results.push((display, profile))
push_result(results, display, profile) ==
    Append(results, [display |-> display, profile |-> profile])

\* the loop of get_all_display_profiles from display i on; calls lists the
\* displays get_profile has been called for
RECURSIVE collect_profiles(_, _, _, _, _, _, _, _)
\* the body of the loop for display i, get_profile having answered r
match_profile(p, s, c, displays, i, results, trace, calls, r) ==
    IF r.res.ok
    THEN collect_profiles(p, s, c, displays, i + 1,
                          push_result(results, displays[i], r.res.val), trace, calls)
    ELSE IF skip_display(r.res.err)
    THEN collect_profiles(p, s, c, displays, i + 1, results, trace, calls)
    ELSE [res |-> Err(r.res.err), trace |-> trace, calls |-> calls]

collect_profiles(p, s, c, displays, i, results, trace, calls) ==
    IF i > Len(displays)
    THEN [res |-> Ok(results), trace |-> trace, calls |-> calls]
    ELSE match_profile(p, s, c, displays, i, results,
                       trace \o get_profile(p, s, c, displays[i]).trace,
                       Append(calls, displays[i].id),
                       get_profile(p, s, c, displays[i]))

get_all_display_profiles_with_config(p, s, c) ==
    LET d == get_displays(p, s, c)
    IN  IF ~d.res.ok
        THEN [res |-> d.res, trace |-> d.trace, calls |-> <<>>]
        ELSE collect_profiles(p, s, c, d.res.val, 1, <<>>, d.trace, <<>>)

get_all_display_profiles(p, s) ==
    get_all_display_profiles_with_config(p, s, DefaultConfig)

(* ------------------------ lib.rs: the ICC header ----------------------- *)

\* u16::from_be_bytes
RECURSIVE from_be_bytes(_)
from_be_bytes(bs) ==
    IF Len(bs) = 0 THEN 0
    ELSE 256 * from_be_bytes(SubSeq(bs, 1, Len(bs) - 1)) + bs[Len(bs)]

\* String::from_utf8_lossy, the string as its sequence of code points: an ASCII
\* byte is itself, a two-byte sequence is its character, any other byte is
\* U+FFFD. The lead bytes E0..F4 of longer sequences are not among the inputs.
RECURSIVE from_utf8_lossy(_)
from_utf8_lossy(bs) ==
    IF Len(bs) = 0 THEN <<>>
    ELSE IF bs[1] < 128
    THEN <<bs[1]>> \o from_utf8_lossy(Tail(bs))
    ELSE IF bs[1] \in 194..223 /\ Len(bs) > 1 /\ bs[2] \in 128..191
    THEN <<(bs[1] - 192) * 64 + (bs[2] - 128)>> \o from_utf8_lossy(Tail(Tail(bs)))
    ELSE <<65533>> \o from_utf8_lossy(Tail(bs))

\* variant of trim_end_matches that trims white space as well, as str::trim_end
RECURSIVE trim_end_and_spaces(_, _)
trim_end_and_spaces(str, ch) ==
    IF Len(str) > 0 /\ str[Len(str)] \in {ch, 32}
    THEN trim_end_and_spaces(SubSeq(str, 1, Len(str) - 1), ch)
    ELSE str

\* str::trim_end_matches(ch)
RECURSIVE trim_end_matches(_, _)
trim_end_matches(str, ch) ==
    IF Len(str) > 0 /\ str[Len(str)] = ch
    THEN trim_end_matches(SubSeq(str, 1, Len(str) - 1), ch)
    ELSE str

\* the closures of IccHeader::parse
read_signature(data, offset) ==
    trim_end_matches(from_utf8_lossy(Slice(data, offset, offset + 4)), 0)

\* u32::from_be_bytes: a u32 is kept as its two 16-bit halves, the integers of
\* the model checker being signed 32-bit ones
u32_from_be_bytes(bs) ==
    [hi |-> from_be_bytes(SubSeq(bs, 1, 2)), lo |-> from_be_bytes(SubSeq(bs, 3, 4))]

\* u >> n for n >= 16
shr(u, n) == u.hi \div (2 ^ (n - 16))

\* u < n for n < 65536
less_than(u, n) == u.hi = 0 /\ u.lo < n

\* u <= n for n < 65536
at_most(u, n) == u.hi = 0 /\ u.lo <= n

\* variant of read_u32_be that reads the last four bytes of the buffer
read_u32_be_last(data, offset) ==
    u32_from_be_bytes(Slice(data, Len(data) - 4, Len(data)))

read_u32_be(data, offset) == u32_from_be_bytes(Slice(data, offset, offset + 4))

\* format!("{:0w$}", n)
RECURSIVE ZeroPad(_, _)
ZeroPad(str, w) == IF Len(str) >= w THEN str ELSE ZeroPad("0" \o str, w)

\* variant of too_short that rejects a buffer of exactly the header size
too_short_or_equal(data) == Len(data) <= HeaderSize

\* data.len() < 128
too_short(data) == Len(data) < HeaderSize

\* format!("ICC profile data too short: {} bytes (minimum 128)", data.len())
TooShortMessage(data) ==
    "ICC profile data too short: " \o ToString(Len(data)) \o " bytes (minimum 128)"

\* variant of version_minor that takes the low nibble of byte 9
version_minor_low(version_raw) == shr(version_raw, 16) % 16

\* ((version_raw >> 20) & 0x0F) as u8
version_minor(version_raw) == shr(version_raw, 20) % 16

\* (version_raw >> 24) as u8
version_major(version_raw) == shr(version_raw, 24) % 256

\* variant of any_nonzero that looks at the year only
any_nonzero_year(bs) == \E i \in 1..2 : bs[i] # 0

\* data[24..36].iter().any(|&b| b != 0)
any_nonzero(bs) == \E i \in DOMAIN bs : bs[i] # 0

u16_at(data, offset) == from_be_bytes(Slice(data, offset, offset + 2))

\* format!("{:04}-{:02}-{:02} {:02}:{:02}:{:02}", year, month, day, hour, minute, second)
format_datetime(data) ==
    ZeroPad(ToString(u16_at(data, 24)), 4) \o "-"
        \o ZeroPad(ToString(u16_at(data, 26)), 2) \o "-"
        \o ZeroPad(ToString(u16_at(data, 28)), 2) \o " "
        \o ZeroPad(ToString(u16_at(data, 30)), 2) \o ":"
        \o ZeroPad(ToString(u16_at(data, 32)), 2) \o ":"
        \o ZeroPad(ToString(u16_at(data, 34)), 2)

creation_datetime(data) ==
    IF any_nonzero(Slice(data, 24, 36)) THEN format_datetime(data) ELSE None

parse_version(data) ==
    LET version_raw == read_u32_be(data, 8)
    IN  <<version_major(version_raw), version_minor(version_raw)>>

IccHeader_parse(data) ==
    IF too_short(data) THEN Err(ParseError(TooShortMessage(data)))
    ELSE Ok([profile_size |-> read_u32_be(data, 0),
             preferred_cmm |-> read_signature(data, 4),
             version |-> parse_version(data),
             device_class |-> read_signature(data, 12),
             data_color_space |-> read_signature(data, 16),
             connection_space |-> read_signature(data, 20),
             creation_datetime |-> creation_datetime(data),
             platform |-> read_signature(data, 40),
             flags |-> read_u32_be(data, 44),
             device_manufacturer |-> read_signature(data, 48),
             device_model |-> read_signature(data, 52)])

parse_icc_header(data) == IccHeader_parse(data)

\* the string literals of validate, as code points
DeviceClasses ==
    {AsciiBytes(str) : str \in {"mntr", "scnr", "prtr", "link", "spac", "abst", "nmcl"}}

ColorSpaces ==
    {AsciiBytes(str) : str \in {"RGB ", "CMYK", "Lab ", "XYZ ", "Luv ", "YCbr",
                                "Yxy ", "HSV ", "HLS ", "CMY "}}

\* variant of size_invalid that rejects a profile of exactly the header size
size_invalid_or_equal(header) == at_most(header.profile_size, HeaderSize)

\* self.profile_size < 128
size_invalid(header) == less_than(header.profile_size, HeaderSize)

\* the messages of validate: the text and the value formatted into it
InvalidMessage(text, value) == <<text, value>>

IccHeader_validate(header) ==
    IF size_invalid(header)
    THEN Err(ParseError(InvalidMessage("Invalid profile size: ", header.profile_size)))
    ELSE IF header.device_class \notin DeviceClasses
    THEN Err(ParseError(InvalidMessage("Invalid device class: ", header.device_class)))
    ELSE IF header.data_color_space \notin ColorSpaces
    THEN Err(ParseError(InvalidMessage("Invalid data color space: ",
                                       header.data_color_space)))
    ELSE Ok(<<>>)

(* --------------------------- the state machine ------------------------- *)

NoDisplay == Display("", "", FALSE)

Idle == [name |-> "idle", cfg |-> DefaultConfig, arg |-> NoDisplay,
         res |-> Ok(<<>>), trace |-> <<>>, calls |-> <<>>]

Call(n, c, d, r) ==
    [name |-> n, cfg |-> c, arg |-> d, res |-> r.res, trace |-> r.trace,
     calls |-> <<>>]

AllCall(n, c, r) ==
    [name |-> n, cfg |-> c, arg |-> NoDisplay, res |-> r.res, trace |-> r.trace,
     calls |-> r.calls]

Init ==
    /\ platform \in Platforms
    /\ config \in ConfigsOf(platform)
    /\ sys \in SysOf(platform)
    /\ op = Idle

GetDisplays ==
    /\ op' = Call("get_displays", config, NoDisplay, get_displays(platform, sys, config))
    /\ UNCHANGED <<platform, config, sys>>

GetPrimaryDisplay ==
    /\ op' = Call("get_primary_display", config, NoDisplay,
                  get_primary_display(platform, sys, config))
    /\ UNCHANGED <<platform, config, sys>>

GetProfile ==
    /\ platform \in ProfilePlatforms
    /\ \E d \in DisplayArgs(platform) :
          op' = Call("get_profile", config, d, get_profile(platform, sys, config, d))
    /\ UNCHANGED <<platform, config, sys>>

\* variant of GetProfileData whose read on Linux leaves the file unreadable
GetProfileDataConsuming ==
    /\ platform \in DataPlatforms
    /\ \E d \in DisplayArgs(platform) :
          op' = Call("get_profile_data", config, d,
                     get_profile_data(platform, sys, config, d))
    /\ sys' = IF platform = "linux" THEN [sys EXCEPT !.readable = FALSE] ELSE sys
    /\ UNCHANGED <<platform, config>>

GetProfileData ==
    /\ platform \in DataPlatforms
    /\ \E d \in DisplayArgs(platform) :
          op' = Call("get_profile_data", config, d,
                     get_profile_data(platform, sys, config, d))
    /\ UNCHANGED <<platform, config, sys>>

\* get_all_display_profiles builds its provider with the default configuration
GetAllDisplayProfiles ==
    /\ platform \in ProfilePlatforms
    /\ op' = AllCall("get_all_display_profiles", DefaultConfig,
                     get_all_display_profiles(platform, sys))
    /\ UNCHANGED <<platform, config, sys>>

GetAllDisplayProfilesWithConfig ==
    /\ platform \in ProfilePlatforms
    /\ \E c \in ConfigsOf(platform) :
          op' = AllCall("get_all_display_profiles_with_config", c,
                       get_all_display_profiles_with_config(platform, sys, c))
    /\ UNCHANGED <<platform, config, sys>>

Next ==
    \/ GetDisplays
    \/ GetPrimaryDisplay
    \/ GetProfile
    \/ GetProfileData
    \/ GetAllDisplayProfiles
    \/ GetAllDisplayProfilesWithConfig

Spec == Init /\ [][Next]_vars

(* --------------------- the header codec on its own --------------------- *)

\* six u16 fields as the 12 bytes at 24..36
DateBytes(year, month, day, hour, minute, second) ==
    <<year \div 256, year % 256, month \div 256, month % 256,
      day \div 256, day % 256, hour \div 256, hour % 256,
      minute \div 256, minute % 256, second \div 256, second % 256>>

\* 127, 128 and u32::MAX
SizeSamples == {to_be_bytes(127), to_be_bytes(128), <<255, 255, 255, 255>>}

VersionSamples == {<<4, 48, 0, 0>>, <<2, 16, 0, 0>>, <<4, 63, 255, 255>>, <<255, 255, 18, 52>>}

\* "mntr", "nmcl", "mnt\0", "RGB "
ClassSamples ==
    {AsciiBytes("mntr"), AsciiBytes("nmcl"), <<109, 110, 116, 0>>, AsciiBytes("RGB ")}

\* "RGB ", "CMY ", "RGB\0", "mntr"
SpaceSamples ==
    {AsciiBytes("RGB "), AsciiBytes("CMY "), <<82, 71, 66, 0>>, AsciiBytes("mntr")}

\* "XYZ ", an invalid byte followed by "\0L\0", four NULs
ConnectionSamples == {AsciiBytes("XYZ "), <<255, 0, 76, 0>>, <<0, 0, 0, 0>>}

\* "APPL", "S\0G\0"
PlatformSamples == {AsciiBytes("APPL"), <<83, 0, 71, 0>>}

\* "ADBE", a two-byte character and two spaces, a lead byte without its
\* continuation
SignatureSamples == {AsciiBytes("ADBE"), <<195, 169, 32, 32>>, <<195, 65, 0, 0>>}

DateSamples ==
    {DateBytes(0, 0, 0, 0, 0, 0), DateBytes(2023, 12, 25, 14, 30, 45),
     DateBytes(0, 13, 0, 99, 0, 65535)}

\* a buffer of len >= 128 bytes with the given header fields laid out at their
\* offsets; the samples fill preferred_cmm, device_manufacturer and
\* device_model alike, flags and the rest of the header are zero, and the bytes
\* after the header are not
HeaderBuffer(len, size, version, class, space, conn, date, plat, sig) ==
    size \o sig \o version \o class \o space \o conn \o date \o Zeros(4)
        \o plat \o Zeros(4) \o sig \o sig \o Zeros(HeaderSize - 56)
        \o SubSeq(<<255, 1>>, 1, len - HeaderSize)

ShortBuffers == {Zeros(0), Zeros(4), <<1, 2, 3, 4, 5, 6, 7, 8, 9, 10, 11, 12>>, Zeros(127)}

IccBuffers ==
    ShortBuffers
    \cup {HeaderBuffer(len, size, version, class, space, conn, date, plat, sig) :
            len \in {HeaderSize, HeaderSize + 2}, size \in SizeSamples,
            version \in VersionSamples, class \in ClassSamples,
            space \in SpaceSamples, conn \in ConnectionSamples,
            date \in DateSamples, plat \in PlatformSamples,
            sig \in SignatureSamples}

\* the codec reads no platform state: sys is the caller's buffer
IccInit ==
    /\ platform = "any"
    /\ config = DefaultConfig
    /\ sys \in IccBuffers
    /\ op = Idle

IccCall(n, a, r) ==
    [name |-> n, cfg |-> DefaultConfig, arg |-> a, res |-> r, trace |-> <<>>,
     calls |-> <<>>]

IccHeaderParse ==
    /\ op' = IccCall("IccHeader::parse", <<>>, IccHeader_parse(sys))
    /\ UNCHANGED <<platform, config, sys>>

ParseIccHeader ==
    /\ op' = IccCall("parse_icc_header", <<>>, parse_icc_header(sys))
    /\ UNCHANGED <<platform, config, sys>>

\* validate on a header that parse returned
IccHeaderValidate ==
    /\ op.name \in {"IccHeader::parse", "parse_icc_header"}
    /\ op.res.ok
    /\ op' = IccCall("IccHeader::validate", op.res.val, IccHeader_validate(op.res.val))
    /\ UNCHANGED <<platform, config, sys>>

IccNext ==
    \/ IccHeaderParse
    \/ ParseIccHeader
    \/ IccHeaderValidate

SpecIcc == IccInit /\ [][IccNext]_vars

(* ------------------- the colormgr parser on its own -------------------- *)

\* most lines of a colormgr get-devices output
MaxLines == 4

\* the characters char::is_whitespace accepts, among those in use
Whitespace == {" ", "\t"}

\* str::starts_with
starts_with(str, prefix) ==
    Len(str) >= Len(prefix) /\ SubSeq(str, 1, Len(prefix)) = prefix

\* str::strip_prefix(prefix).unwrap_or("")
strip_prefix(str, prefix) ==
    IF starts_with(str, prefix) THEN SubSeq(str, Len(prefix) + 1, Len(str)) ELSE ""

RECURSIVE trim_start(_)
trim_start(str) ==
    IF Len(str) > 0 /\ SubSeq(str, 1, 1) \in Whitespace
    THEN trim_start(SubSeq(str, 2, Len(str)))
    ELSE str

RECURSIVE trim_end(_)
trim_end(str) ==
    IF Len(str) > 0 /\ SubSeq(str, Len(str), Len(str)) \in Whitespace
    THEN trim_end(SubSeq(str, 1, Len(str) - 1))
    ELSE str

\* str::trim
trim(str) == trim_end(trim_start(str))

\* str::contains
contains(str, sub) ==
    \E i \in 1..(Len(str) - Len(sub) + 1) : SubSeq(str, i, i + Len(sub) - 1) = sub

UpperLetters == "ABCDEFGHIJKLMNOPQRSTUVWXYZ"

LowerLetters == "abcdefghijklmnopqrstuvwxyz"

lower_char(ch) ==
    IF \E i \in 1..26 : SubSeq(UpperLetters, i, i) = ch
    THEN LET i == CHOOSE k \in 1..26 : SubSeq(UpperLetters, k, k) = ch
         IN  SubSeq(LowerLetters, i, i)
    ELSE ch

\* str::to_lowercase on ASCII text, character by character
RECURSIVE ascii_to_lowercase(_)
ascii_to_lowercase(str) ==
    IF Len(str) = 0 THEN ""
    ELSE lower_char(SubSeq(str, 1, 1)) \o ascii_to_lowercase(SubSeq(str, 2, Len(str)))

\* the text of str before its first ':', all of it when it has none
RECURSIVE before_colon(_)
before_colon(str) ==
    IF Len(str) = 0 \/ SubSeq(str, 1, 1) = ":" THEN ""
    ELSE SubSeq(str, 1, 1) \o before_colon(SubSeq(str, 2, Len(str)))

\* line.split(':').nth(1) of a line that contains ':': the text between its
\* first ':' and its second one, or the end of the line
split_nth_1(line) ==
    before_colon(SubSeq(line, Len(before_colon(line)) + 2, Len(line)))

\* the ColormgrDevice a "Device ID:" line starts
NewDevice(id) ==
    [id |-> id, kind |-> "", model |-> "", vendor |-> "", serial |-> "",
     profiles |-> <<>>]

\* current_device: None
NoCurrentDevice == [some |-> FALSE, device |-> NewDevice("")]

\* the branch of the loop for a line that is no "Device ID:" line, on the
\* current device
property_line(device, line) ==
    IF starts_with(line, "Kind:")
    THEN [device EXCEPT !.kind = trim(strip_prefix(line, "Kind:"))]
    ELSE IF starts_with(line, "Model:")
    THEN [device EXCEPT !.model = trim(strip_prefix(line, "Model:"))]
    ELSE IF starts_with(line, "Vendor:")
    THEN [device EXCEPT !.vendor = trim(strip_prefix(line, "Vendor:"))]
    ELSE IF starts_with(line, "Serial:")
    THEN [device EXCEPT !.serial = trim(strip_prefix(line, "Serial:"))]
    ELSE IF starts_with(line, "Profile ") /\ contains(line, ":")
    THEN [device EXCEPT !.profiles = Append(@, trim(split_nth_1(line)))]
    ELSE device

\* the loop over output.lines() from line i on, and the push of the last device
RECURSIVE parse_lines(_, _, _, _)
parse_lines(lines, i, devices, current) ==
    IF i > Len(lines)
    THEN IF current.some THEN Append(devices, current.device) ELSE devices
    ELSE LET line == trim(lines[i])
         IN  IF starts_with(line, "Device ID:")
             THEN parse_lines(lines, i + 1,
                              IF current.some THEN Append(devices, current.device)
                              ELSE devices,
                              [some |-> TRUE,
                               device |-> NewDevice(trim(strip_prefix(line, "Device ID:")))])
             ELSE IF current.some
             THEN parse_lines(lines, i + 1, devices,
                              [current EXCEPT !.device = property_line(@, line)])
             ELSE parse_lines(lines, i + 1, devices, current)

is_display_device(device) == contains(ascii_to_lowercase(device.kind), "display")

\* parse_colormgr_devices on the lines of the output
parse_colormgr_devices(lines) ==
    Ok(SelectSeq(parse_lines(lines, 1, <<>>, NoCurrentDevice), is_display_device))

\* lines of a colormgr get-devices output
LineSamples ==
    {"Device ID:  xrandr-a", "Device ID: cups-b", "Kind:   display",
     "  Kind: LCD-Display  ", "Kind: printer", "Profile 1:  icc-1",
     "Profile 2: icc:2", "Model: LG"}

ColormgrOutputs == UNION {[1..n -> LineSamples] : n \in 0..MaxLines}

ColormgrInit ==
    /\ platform = "linux"
    /\ config = DefaultConfig
    /\ sys \in ColormgrOutputs
    /\ op = Idle

ParseColormgrDevices ==
    /\ op' = [name |-> "parse_colormgr_devices", cfg |-> DefaultConfig,
              arg |-> NoDisplay, res |-> parse_colormgr_devices(sys),
              trace |-> <<>>, calls |-> <<>>]
    /\ UNCHANGED <<platform, config, sys>>

ColormgrNext == ParseColormgrDevices

SpecColormgr == ColormgrInit /\ [][ColormgrNext]_vars

(* ------------------------------- claims -------------------------------- *)

DbusCalls == {"get_dbus_devices", "get_dbus_profile"}

BaselineCalls ==
    {"get_colormgr_devices", "get_colormgr_profile", "scan_filesystem_profiles"}

LinuxCall == platform = "linux" /\ op.name \in {"get_displays", "get_profile"}

SameResult(a, b) ==
    /\ a.ok = b.ok
    /\ a.ok => a.val = b.val
    /\ ~a.ok => a.err = b.err

\* C1: with fallback_enabled = false, once a Linux get_displays or get_profile
\* call has gone to the D-Bus adapter, nothing later in that call goes to the
\* colormgr command or to the filesystem scan; in particular not after the
\* D-Bus adapter has failed.
C1_NoBaselineAfterDbus ==
    (LinuxCall /\ ~op.cfg.fallback_enabled)
        => \A i, j \in DOMAIN op.trace :
              (i < j /\ op.trace[i] \in DbusCalls) => op.trace[j] \notin BaselineCalls

C1_Witness ==
    /\ LinuxCall
    /\ ~op.cfg.fallback_enabled
    /\ "get_dbus_devices" \in Range(op.trace)
    /\ ~op.res.ok
    /\ op.res.err = DbusDisabledError

\* get_profile returned from the filesystem-fallback case before any backend
ShortCircuit == op.name = "get_profile" /\ fallback_get_profile(sys, op.arg).done

\* the error value produced by the first adapter tried in the call recorded in
\* op: the error of its call that failed, NoError when none of its calls failed
FirstAdapterError ==
    LET dd == get_dbus_devices(sys)
        cm == get_colormgr_devices(sys)
        di == IF dd.ok THEN FirstIndex(dd.val, LAMBDA d : d.id = op.arg.id, 1) ELSE 0
        ci == IF cm.ok THEN FirstIndex(cm.val, LAMBDA d : d.id = op.arg.id, 1) ELSE 0
    IN  IF should_use_dbus(sys, op.cfg).val
        THEN IF op.name = "get_displays" \/ ~dd.ok THEN dd.err
             ELSE IF di = 0 \/ Len(dd.val[di].profiles) = 0 THEN NoError
             ELSE get_dbus_profile(sys, first_profile(dd.val[di])).err
        ELSE IF op.name = "get_displays" \/ ~cm.ok THEN cm.err
             ELSE IF ci = 0 \/ Len(cm.val[ci].profiles) = 0 THEN NoError
             ELSE get_colormgr_profile(sys, first_profile(cm.val[ci])).err

\* C2: with fallback_enabled = false, when the first adapter tried by a Linux
\* get_displays or get_profile call fails with an error, the call returns
\* exactly that error value.
C2_FirstAdapterErrorReturned ==
    (LinuxCall /\ ~op.cfg.fallback_enabled /\ ~ShortCircuit
        /\ FirstAdapterError # NoError)
        => (~op.res.ok /\ op.res.err = FirstAdapterError)

\* the D-Bus adapter was tried in the call recorded in op and did not answer it
DbusFailed ==
    /\ "get_dbus_devices" \in Range(op.trace)
    /\ IF op.name = "get_displays"
       THEN ~get_dbus_devices(sys).ok
       ELSE ~dbus_get_profile(sys, op.arg).done

\* the calls of op.trace after its last D-Bus call
AfterDbus ==
    LET last == CHOOSE i \in DOMAIN op.trace :
                    /\ op.trace[i] \in DbusCalls
                    /\ \A j \in DOMAIN op.trace : j > i => op.trace[j] \notin DbusCalls
    IN  SubSeq(op.trace, last + 1, Len(op.trace))

\* what the colormgr adapter alone answers to the call recorded in op
BaselineResult ==
    LET cm == get_colormgr_devices(sys)
    IN  IF op.name = "get_profile" THEN colormgr_get_profile(sys, op.arg).res
        ELSE IF cm.ok THEN convert_devices_to_displays(cm.val)
        ELSE cm

\* what the filesystem scan answers to get_displays
ScanResult ==
    IF Len(scan_filesystem_profiles(sys).val) > 0
    THEN Ok(<<FallbackDisplay>>)
    ELSE Err(SystemError("No display devices found via any method"))

\* C3 as stated: with fallback_enabled = true, after a failed D-Bus attempt the
\* colormgr adapter is tried next and the caller observes colormgr's result,
\* success or failure.
C3_BaselineResultObserved ==
    (LinuxCall /\ op.cfg.fallback_enabled /\ DbusFailed)
        => /\ Len(AfterDbus) > 0
           /\ AfterDbus[1] = "get_colormgr_devices"
           /\ SameResult(op.res, BaselineResult)

\* C3 amended: with fallback_enabled = true, after a failed D-Bus attempt the
\* colormgr adapter is tried next; get_profile returns colormgr's result,
\* success or failure; get_displays returns colormgr's result when the colormgr
\* command succeeds, and when it fails goes on to the filesystem scan and
\* returns the scan's outcome.
C3_BaselineTriedNext ==
    (LinuxCall /\ op.cfg.fallback_enabled /\ DbusFailed)
        => /\ Len(AfterDbus) > 0
           /\ AfterDbus[1] = "get_colormgr_devices"
           /\ IF op.name = "get_profile" \/ get_colormgr_devices(sys).ok
              THEN SameResult(op.res, BaselineResult)
              ELSE /\ AfterDbus = <<"get_colormgr_devices", "scan_filesystem_profiles">>
                   /\ SameResult(op.res, ScanResult)

C3_Witness ==
    /\ LinuxCall
    /\ op.cfg.fallback_enabled
    /\ DbusFailed
    /\ op.name = "get_displays"
    /\ ~get_colormgr_devices(sys).ok
    /\ op.res.ok

LinuxProviderCall ==
    platform = "linux" /\ op.name \in {"get_displays", "get_primary_display", "get_profile"}

\* the calls of a trace that go to one of the two structured backends
BackendCalls(trace) ==
    SelectSeq(trace, LAMBDA x : x \in {"get_dbus_devices", "get_colormgr_devices"})

DbusSelected ==
    sys.dbus_support /\ op.cfg.linux_prefer_dbus /\ sys.dbus_available

NoDbusCall ==
    \A i \in DOMAIN op.trace : op.trace[i] \notin DbusCalls \cup {"is_dbus_available"}

\* C4 as stated: in every Linux operation D-Bus is tried before colormgr iff
\* linux_prefer_dbus holds, D-Bus is built in and the service is reachable;
\* otherwise colormgr is the first adapter tried; with linux_prefer_dbus =
\* false no D-Bus call is made, the probe included.
C4_DbusFirstIffSelected ==
    LinuxProviderCall
        => /\ (Len(BackendCalls(op.trace)) > 0
                 /\ BackendCalls(op.trace)[1] = "get_dbus_devices") <=> DbusSelected
           /\ ~DbusSelected
                 => (Len(BackendCalls(op.trace)) > 0
                       /\ BackendCalls(op.trace)[1] = "get_colormgr_devices")
           /\ ~op.cfg.linux_prefer_dbus => NoDbusCall

\* C4 amended: in every Linux operation that does not return from get_profile's
\* filesystem-fallback case, of the two structured backends D-Bus is tried
\* first iff linux_prefer_dbus holds, D-Bus is built in and the service is
\* reachable, and colormgr is tried first otherwise; a get_profile call that
\* returns from the filesystem-fallback case has run the directory scan and
\* neither backend; with linux_prefer_dbus = false no D-Bus call is made, the
\* probe included.
C4_DbusFirstUnlessShortCircuit ==
    LinuxProviderCall
        => /\ ~ShortCircuit
                 => /\ Len(BackendCalls(op.trace)) > 0
                    /\ BackendCalls(op.trace)[1] = "get_dbus_devices" <=> DbusSelected
                    /\ ~DbusSelected => BackendCalls(op.trace)[1] = "get_colormgr_devices"
           /\ ShortCircuit => op.trace = <<"scan_filesystem_profiles">>
           /\ ~op.cfg.linux_prefer_dbus => NoDbusCall

C4_Witness ==
    /\ LinuxProviderCall
    /\ sys.dbus_support
    /\ op.cfg.linux_prefer_dbus
    /\ ~sys.dbus_available
    /\ Len(op.trace) >= 2
    /\ op.trace[1] = "is_dbus_available"
    /\ op.trace[2] = "get_colormgr_devices"

AllCall_ == op.name \in {"get_all_display_profiles", "get_all_display_profiles_with_config"}

\* what get_displays answers to the provider of the call recorded in op
Enumerated == get_displays(platform, sys, op.cfg).res

\* what get_profile answers for display d to that provider
ProfileOf(d) == get_profile(platform, sys, op.cfg, d).res

HasProfile(d) == ProfileOf(d).ok

HardFailure(d) ==
    ~ProfileOf(d).ok /\ ProfileOf(d).err.kind # "ProfileNotAvailable"

\* C5: when every per-display get_profile failure is ProfileNotAvailable,
\* get_all_display_profiles (and its _with_config variant) returns exactly one
\* (display, profile) pair for each enumerated display whose get_profile
\* succeeded, in enumeration order.
C5_OnePairPerResolvedDisplay ==
    (AllCall_ /\ Enumerated.ok
        /\ \A d \in Range(Enumerated.val) : ~HardFailure(d))
        => /\ op.res.ok
           /\ LET kept == SelectSeq(Enumerated.val, HasProfile)
              IN  /\ Len(op.res.val) = Len(kept)
                  /\ \A i \in 1..Len(kept) :
                        /\ op.res.val[i].display = kept[i]
                        /\ op.res.val[i].profile = ProfileOf(kept[i]).val

C5_Witness ==
    /\ AllCall_
    /\ op.res.ok
    /\ Len(op.calls) = 2
    /\ Len(op.res.val) = 1
    /\ op.res.val[1].display = Enumerated.val[2]

\* the first enumerated display whose get_profile fails with an error other
\* than ProfileNotAvailable, 0 when there is none
FirstHard == FirstIndex(Enumerated.val, HardFailure, 1)

\* C6: if get_profile fails for an enumerated display with an error other than
\* ProfileNotAvailable, get_all_display_profiles returns that error, returns
\* no list, and has called get_profile for the displays up to the failing one
\* and for none after it.
C6_FirstHardErrorAborts ==
    (AllCall_ /\ Enumerated.ok /\ FirstHard > 0)
        => /\ ~op.res.ok
           /\ op.res.err = ProfileOf(Enumerated.val[FirstHard]).err
           /\ op.res.val = <<>>
           /\ op.calls = [i \in 1..FirstHard |-> Enumerated.val[i].id]

C6_Witness ==
    /\ AllCall_
    /\ Enumerated.ok
    /\ ~op.res.ok
    /\ op.res.err.kind = "SystemError"
    /\ Len(op.calls) = 1
    /\ Len(Enumerated.val) = 2

\* the ids of the colord devices that have no profile assigned
ProfilelessIds ==
    {sys.devices[i].id : i \in {j \in DOMAIN sys.devices : sys.devices[j].profiles = <<>>}}

\* every backend call of the Linux provider answers
BackendsHealthy ==
    /\ sys.colormgr = "ok"
    /\ sys.colormgr_profile_ok
    /\ sys.dbus_devices_ok
    /\ sys.dbus_profiles_ok

\* C7: for every configuration, get_all_display_profiles_with_config skips a
\* display that exists but has no profile assigned and still returns the pairs
\* of the other displays: the call does not fail because of it.
C7_ProfilelessDisplaySkipped ==
    (platform = "linux" /\ op.name = "get_all_display_profiles_with_config"
        /\ Enumerated.ok /\ BackendsHealthy
        /\ \E d \in Range(Enumerated.val) : d.id \in ProfilelessIds)
        => /\ op.res.ok
           /\ \A i \in DOMAIN op.res.val : op.res.val[i].display.id \notin ProfilelessIds
           /\ \A d \in Range(Enumerated.val) :
                 d.id \notin ProfilelessIds
                     => \E i \in DOMAIN op.res.val : op.res.val[i].display = d

PlatformProviders == {"linux", "windows", "macos"}

PrimaryCount(displays) == Cardinality({i \in DOMAIN displays : displays[i].is_primary})

\* C8: every successful get_displays result of a platform provider holds at
\* most one display with is_primary = true. Linux marks the first device only;
\* Windows and macOS copy the flag of the system, which names one primary
\* monitor and one main display.
C8_AtMostOnePrimary ==
    (platform \in PlatformProviders /\ op.name = "get_displays" /\ op.res.ok)
        => PrimaryCount(op.res.val) <= 1

C8_Witness ==
    /\ platform = "linux"
    /\ op.name = "get_displays"
    /\ op.res.ok
    /\ Len(op.res.val) >= 2
    /\ PrimaryCount(op.res.val) = 1

PrimaryIndex(displays) == FirstIndex(displays, LAMBDA d : d.is_primary, 1)

\* a get_primary_display call that no injected mock failure answers, on a
\* system whose enumeration succeeds
PrimaryCall ==
    /\ op.name = "get_primary_display"
    /\ Enumerated.ok
    /\ platform = "mock" => sys.should_fail["get_primary_display"] = NoError

BackendFlagsNoPrimary ==
    \/ platform = "linux"
    \/ /\ platform = "windows"
       /\ enumerate_monitors(sys).ok
       /\ \A m \in Range(enumerate_monitors(sys).val) : ~m.is_primary

C11_FallbackOnlyWhenEnabled ==
    (LinuxCall /\ ~op.cfg.fallback_enabled)
        => /\ op.name = "get_displays"
                 => (op.res.ok => \A i \in DOMAIN op.res.val : op.res.val[i].id # FallbackId)
           /\ op.name = "get_profile" => ~(ShortCircuit /\ op.res.ok)

\* the directory entries with an ICC or ICM extension, in scan order
IccFiles == SelectSeq(sys.dir, LAMBDA e : e.ext = "icc" \/ e.ext = "icm")

\* D-Bus, when it is the adapter tried first, and colormgr both fail to list
\* devices under the configuration of the call recorded in op
StructuredBackendsFail ==
    /\ should_use_dbus(sys, op.cfg).val => ~get_dbus_devices(sys).ok
    /\ ~get_colormgr_devices(sys).ok

DisplayAdaptersFailed ==
    LET dbus == should_use_dbus(sys, op.cfg).val
    IN  /\ dbus => ~get_dbus_devices(sys).ok
        /\ (~dbus \/ op.cfg.fallback_enabled) => ~get_colormgr_devices(sys).ok
        /\ op.cfg.fallback_enabled => Len(IccFiles) = 0

\* the display argument of the call recorded in op is a colord device that has
\* no profile assigned
ProfilelessArgument == op.arg.id \in ProfilelessIds

\* C13: when every permitted adapter has failed get_displays fails with
\* SystemError, and get_profile for a display that exists and for which no
\* backend has a profile fails with ProfileNotAvailable. Stated for backends
\* whose failures are SystemErrors (a colormgr output that is not UTF-8 is a
\* ParseError) and, for get_profile, for backends that answer every call.
C13_ExhaustedErrorKinds ==
    LinuxCall
        => /\ (op.name = "get_displays" /\ sys.colormgr # "bad_utf8"
                 /\ DisplayAdaptersFailed)
                 => (~op.res.ok /\ op.res.err.kind = "SystemError")
           /\ (op.name = "get_profile" /\ BackendsHealthy /\ ProfilelessArgument)
                 => (~op.res.ok /\ op.res.err.kind = "ProfileNotAvailable")

\* the platform's device enumeration works and every backend answers
DevicesListed ==
    CASE platform = "linux" -> BackendsHealthy
      [] platform = "windows" -> sys.enum_ok
      [] platform = "macos" -> sys.list_ok
      [] OTHER -> FALSE

\* a get_profile or get_profile_data call of a platform provider
ProfileCall == op.name \in {"get_profile", "get_profile_data"}

NotFoundWith(id) ==
    /\ ~op.res.ok
    /\ op.res.err.kind = "DisplayNotFound"
    /\ op.res.err.msg = id

\* C14: under every configuration, get_profile and get_profile_data called with
\* a Display whose id matches no device fail with DisplayNotFound carrying that
\* id.
C14_UnknownIdNotFound ==
    (ProfileCall /\ DevicesListed /\ op.arg.id = UnknownId)
        => NotFoundWith(UnknownId)

\* what get_profile resolves for the display of a get_profile_data call
Resolved == get_profile(platform, sys, op.cfg, op.arg).res

DataCall == op.name = "get_profile_data" /\ platform \in {"linux", "windows"}

ReadAttempted ==
    /\ Len(op.trace) > 0
    /\ op.trace[Len(op.trace)] \in {"load_profile_data", "read_profile_file"}

\* C15: get_profile_data on a display whose resolved profile has no file path
\* fails with ProfileNotAvailable, never IoError; it fails with IoError only
\* when a file path was resolved and reading that file failed.
C15_NoPathIsNotAvailable ==
    DataCall =>
        /\ (Resolved.ok /\ Resolved.val.file_path = None)
              => (~op.res.ok /\ op.res.err.kind = "ProfileNotAvailable")
        /\ (~op.res.ok /\ op.res.err.kind = "IoError")
              => (Resolved.ok /\ Resolved.val.file_path # None /\ ReadAttempted)

\* a profile without file name was resolved and get_profile_data refused it
C15_Witness ==
    /\ DataCall
    /\ Resolved.ok
    /\ Resolved.val.file_path = None
    /\ ~op.res.ok
    /\ op.res.err.kind = "ProfileNotAvailable"

\* a call of IccHeader::parse or of parse_icc_header on the buffer sys
ParseCall == op.name \in {"IccHeader::parse", "parse_icc_header"}

Parsed == ParseCall /\ op.res.ok

\* the text sub occurs in the text str
Contains(str, sub) ==
    \E i \in 1..(Len(str) - Len(sub) + 1) : SubSeq(str, i, i + Len(sub) - 1) = sub

\* C16: on a buffer shorter than 128 bytes IccHeader::parse and
\* parse_icc_header fail with a ParseError whose message contains 128 and the
\* buffer's length; on a buffer of 128 bytes or more they return a header.
C16_LengthGuard ==
    ParseCall =>
        IF Len(sys) < 128
        THEN /\ ~op.res.ok
             /\ op.res.err.kind = "ParseError"
             /\ Contains(op.res.err.msg, "128")
             /\ Contains(op.res.err.msg, ToString(Len(sys)))
        ELSE op.res.ok

\* a buffer one byte short of a header was refused
C16_Witness == ParseCall /\ Len(sys) = 127 /\ ~op.res.ok

ClaimedClasses ==
    {AsciiBytes("mntr"), AsciiBytes("scnr"), AsciiBytes("prtr"), AsciiBytes("link"),
     AsciiBytes("spac"), AsciiBytes("abst"), AsciiBytes("nmcl")}

ClaimedSpaces ==
    {AsciiBytes("RGB "), AsciiBytes("CMYK"), AsciiBytes("Lab "), AsciiBytes("XYZ "),
     AsciiBytes("Luv "), AsciiBytes("YCbr"), AsciiBytes("Yxy "), AsciiBytes("HSV "),
     AsciiBytes("HLS "), AsciiBytes("CMY ")}

ValidateCall == op.name = "IccHeader::validate"

\* the header with its other fields replaced
WithOtherFields(h, sig, n) ==
    [h EXCEPT !.connection_space = sig, !.platform = sig, !.preferred_cmm = sig,
              !.device_manufacturer = sig, !.device_model = sig,
              !.version = <<n, n>>, !.flags = [hi |-> n, lo |-> n],
              !.creation_datetime = None]

\* C17: IccHeader::validate fails, with a ParseError, exactly when profile_size
\* is below 128 or device_class is not one of the seven classes or
\* data_color_space is not one of the ten colour spaces; the other fields do
\* not change its result.
C17_ValidateCriteria ==
    ValidateCall =>
        LET h == op.arg
            rejected ==
                \/ (h.profile_size.hi = 0 /\ h.profile_size.lo < 128)
                \/ h.device_class \notin ClaimedClasses
                \/ h.data_color_space \notin ClaimedSpaces
        IN  /\ ~op.res.ok <=> rejected
            /\ ~op.res.ok => op.res.err.kind = "ParseError"
            /\ \A sig \in {<<>>, AsciiBytes("mntr"), <<65533>>}, n \in {0, 255} :
                  IccHeader_validate(WithOtherFields(h, sig, n)).ok = op.res.ok

\* a header of sufficient size and known class refused for its colour space
C17_Witness ==
    /\ ValidateCall
    /\ ~op.res.ok
    /\ op.arg.profile_size.lo = 128
    /\ op.arg.device_class = AsciiBytes("nmcl")
    /\ op.arg.data_color_space = <<82, 71, 66>>

\* the signature fields and their offsets
SignatureFields ==
    {<<"preferred_cmm", 4>>, <<"device_class", 12>>, <<"data_color_space", 16>>,
     <<"connection_space", 20>>, <<"platform", 40>>, <<"device_manufacturer", 48>>,
     <<"device_model", 52>>}

\* the bytes without their trailing NULs
StripTrailingNuls(bs) ==
    LET last == CHOOSE k \in 0..Len(bs) :
                    /\ k > 0 => bs[k] # 0
                    /\ \A j \in (k + 1)..Len(bs) : bs[j] = 0
    IN  SubSeq(bs, 1, last)

\* String::as_bytes: the UTF-8 encoding of the code points
RECURSIVE as_bytes(_)
as_bytes(str) ==
    IF Len(str) = 0 THEN <<>>
    ELSE IF str[1] < 128 THEN <<str[1]>> \o as_bytes(Tail(str))
    ELSE IF str[1] < 2048
    THEN <<192 + (str[1] \div 64), 128 + (str[1] % 64)>> \o as_bytes(Tail(str))
    ELSE <<224 + (str[1] \div 4096), 128 + ((str[1] \div 64) % 64), 128 + (str[1] % 64)>>
             \o as_bytes(Tail(str))

IsAscii(bs) == \A i \in DOMAIN bs : bs[i] < 128

\* C18 as stated: every signature field decodes to its 4 bytes with the
\* trailing NUL bytes removed and nothing else changed.
C18_SignatureIsBytesWithoutTrailingNuls ==
    Parsed =>
        \A f \in SignatureFields :
            as_bytes(op.res.val[f[1]]) = StripTrailingNuls(Slice(sys, f[2], f[2] + 4))

\* C18: every signature field whose 4 bytes are ASCII decodes to those bytes
\* with the trailing NUL bytes removed and nothing else removed (trailing
\* spaces and NULs before the last non-NUL byte stay); no decoded signature
\* ends in NUL.
C18_AsciiSignaturePreserved ==
    Parsed =>
        \A f \in SignatureFields :
            LET bs == Slice(sys, f[2], f[2] + 4)
                str == op.res.val[f[1]]
            IN  /\ IsAscii(bs) => str = StripTrailingNuls(bs)
                /\ Len(str) > 0 => str[Len(str)] # 0

\* "mnt\0" lost its NUL, "RGB " kept its space, "S\0G\0" kept its inner NUL
C18_Witness ==
    /\ Parsed
    /\ Slice(sys, 12, 16) = <<109, 110, 116, 0>>
    /\ op.res.val.device_class = <<109, 110, 116>>
    /\ op.res.val.data_color_space = AsciiBytes("RGB ")
    /\ op.res.val.platform = <<83, 0, 71>>

\* the k-th big-endian u16 of the creation date
DateField(k) == 256 * sys[24 + 2 * k - 1] + sys[24 + 2 * k]

TwoDigits(n) == IF n < 10 THEN "0" \o ToString(n) ELSE ToString(n)

FourDigits(n) ==
    IF n < 100 THEN "00" \o TwoDigits(n)
    ELSE IF n < 1000 THEN "0" \o ToString(n)
    ELSE ToString(n)

\* C19: creation_datetime is None exactly when bytes 24..36 are all zero;
\* otherwise it is the six big-endian u16 fields as YYYY-MM-DD HH:MM:SS, zero
\* padded and not validated against the calendar.
C19_CreationDatetime ==
    Parsed =>
        /\ op.res.val.creation_datetime = None
              <=> \A i \in 25..36 : sys[i] = 0
        /\ (\E i \in 25..36 : sys[i] # 0) =>
              op.res.val.creation_datetime =
                  FourDigits(DateField(1)) \o "-" \o TwoDigits(DateField(2)) \o "-"
                      \o TwoDigits(DateField(3)) \o " " \o TwoDigits(DateField(4))
                      \o ":" \o TwoDigits(DateField(5)) \o ":"
                      \o TwoDigits(DateField(6))

\* month 13 and hour 99 rendered as they are
C19_Witness ==
    /\ Parsed
    /\ DateField(2) = 13
    /\ DateField(4) = 99
    /\ op.res.val.creation_datetime = "0000-13-00 99:00:65535"

\* the buffer with the low nibble of byte 9 and bytes 10 and 11 replaced
WithVersionRest(low, b10, b11) ==
    [sys EXCEPT ![10] = (16 * (sys[10] \div 16)) + low, ![11] = b10, ![12] = b11]

\* C20: version is (byte 8, high nibble of byte 9) for every value of bytes
\* 8..12; the low nibble of byte 9 and bytes 10 and 11 do not affect it.
C20_VersionNibbles ==
    Parsed =>
        /\ op.res.val.version = <<sys[9], sys[10] \div 16>>
        /\ \A low \in {0, 5, 15}, b10 \in {0, 255}, b11 \in {0, 255} :
              parse_version(WithVersionRest(low, b10, b11)) = op.res.val.version

\* raw 0x043FFFFF decoded as (4, 3)
C20_Witness ==
    /\ Parsed
    /\ Slice(sys, 8, 12) = <<4, 63, 255, 255>>
    /\ op.res.val.version = <<4, 3>>

\* the first 128 bytes of the buffer
HeaderBytes == SubSeq(sys, 1, 128)

\* C21: IccHeader::parse depends only on the first 128 bytes: a buffer of 128
\* bytes or more parses to the header of its first 128 bytes, whatever follows
\* them.
C21_OnlyHeaderBytesRead ==
    (Parsed /\ Len(sys) >= 128) =>
        /\ IccHeader_parse(HeaderBytes) = op.res
        /\ \A rest \in {<<0>>, <<7, 255, 3>>, HeaderBytes} :
              IccHeader_parse(HeaderBytes \o rest) = op.res

\* a buffer with non-zero bytes after its header was parsed
C21_Witness ==
    /\ Parsed
    /\ Len(sys) = 130
    /\ sys[129] = 255
    /\ op.res.val.device_class = AsciiBytes("mntr")

\* the result of call o made on its own against the system as it is
ResultAlone(o) ==
    CASE o.name = "get_displays" -> get_displays(platform, sys, o.cfg).res
      [] o.name = "get_primary_display" -> get_primary_display(platform, sys, o.cfg).res
      [] o.name = "get_profile" -> get_profile(platform, sys, o.cfg, o.arg).res
      [] o.name = "get_profile_data" -> get_profile_data(platform, sys, o.cfg, o.arg).res
      [] OTHER -> o.res

C23_ErrorOnlyAfterWholeChain ==
    (platform = "linux" /\ op.name = "get_displays" /\ op.cfg.fallback_enabled
        /\ ~op.res.ok)
        => /\ Len(op.trace) > 0
           /\ op.trace[Len(op.trace)] = "scan_filesystem_profiles"
           /\ "get_colormgr_devices" \in Range(op.trace)

\* the devices carrying the id of the display argument
ArgumentDevices == {i \in DOMAIN sys.devices : sys.devices[i].id = op.arg.id}

\* the device get_profile looks up: the first one with that id
ArgumentDevice ==
    sys.devices[CHOOSE i \in ArgumentDevices : \A j \in ArgumentDevices : i <= j]

\* the name colord's record of a profile id gives
NameOfProfile(pid) == IF ColormgrProfile(pid).title # None
                      THEN ColormgrProfile(pid).title ELSE pid

LinuxProfileResolved ==
    /\ platform = "linux"
    /\ op.name = "get_profile"
    /\ op.res.ok
    /\ op.arg.id # FallbackId
    /\ ArgumentDevices # {}

\* C24: when a device reports several profile ids, a Linux get_profile that
\* succeeds through D-Bus or through colormgr returns the profile of the first
\* id reported, never of a later one.
C24_FirstProfileIdResolved ==
    LinuxProfileResolved =>
        /\ Len(ArgumentDevice.profiles) > 0
        /\ op.res.val.name = NameOfProfile(ArgumentDevice.profiles[1])
        /\ op.res.val.file_path = ColormgrProfile(ArgumentDevice.profiles[1]).filename

\* a device reporting p2 then p1 resolved to p2, on the D-Bus path
C24_Witness ==
    /\ LinuxProfileResolved
    /\ Len(ArgumentDevice.profiles) = 2
    /\ ArgumentDevice.profiles[1] = "p2"
    /\ op.res.val.name = "p2"
    /\ "get_dbus_profile" \in Range(op.trace)

\* how often a call went to adapter a
Attempts(a) == Cardinality({i \in DOMAIN op.trace : op.trace[i] = a})

\* C25: a Linux get_displays or get_profile call ends after a bounded number
\* of adapter calls, and it goes at most once to each of the D-Bus
\* enumeration, the colormgr get-devices command and the filesystem scan: a
\* failed attempt is not repeated.
C25_EachAdapterAtMostOnce ==
    LinuxCall =>
        /\ \A a \in {"get_dbus_devices", "get_colormgr_devices",
                     "scan_filesystem_profiles"} : Attempts(a) <= 1
        /\ Len(op.trace) <= 6

\* a get_displays call that went through the whole chain, every adapter failing
C25_Witness ==
    /\ platform = "linux"
    /\ op.name = "get_displays"
    /\ ~op.res.ok
    /\ Attempts("get_dbus_devices") = 1
    /\ Attempts("get_colormgr_devices") = 1
    /\ Attempts("scan_filesystem_profiles") = 1

\* a Windows get_profile call that went into fallback_get_profile
WindowsFallbackEntered ==
    /\ platform = "windows"
    /\ op.name = "get_profile"
    /\ op.cfg.fallback_enabled
    /\ "query_registry_for_profiles" \in Range(op.trace)

NoReadableProfileFile == \A n \in Range(WinFiles) : sys.files[n] # "readable"

\* C26: with fallback_enabled = true the Windows fallback for an existing
\* monitor never fails: it returns a profile file that can be read, and the
\* built-in "Default sRGB" ProfileInfo when no profile file can be read.
C26_FallbackEndsInDefaultSrgb ==
    WindowsFallbackEntered =>
        /\ op.res.ok
        /\ NoReadableProfileFile => op.res.val = DefaultSrgb

\* a macOS get_profile or get_profile_data call with the fallback enabled
MacFallbackCall ==
    /\ platform = "macos"
    /\ op.name \in {"get_profile", "get_profile_data"}
    /\ op.cfg.fallback_enabled

\* the native lookup of the call failed: the id is not a number, the display
\* has no colour space, or (for the data) the colour space has no ICC data
NativeLookupFailed ==
    \/ parse_display_id(op.arg.id) = 0
    \/ ~sys.cs_ok
    \/ op.name = "get_profile_data" /\ sys.icc = "null"

BuiltInFor(display) ==
    IF display.is_primary /\ display.name = "Built-in Display" THEN color_lcd ELSE srgb

MonitorHeader(r) ==
    /\ r.ok
    /\ IccHeader_validate(r.val).ok
    /\ r.val.profile_size = [hi |-> 0, lo |-> 128]
    /\ r.val.device_class = AsciiBytes("mntr")
    /\ r.val.data_color_space = AsciiBytes("RGB ")

BuiltInBuffer(data) == Len(data) = 128 /\ MonitorHeader(IccHeader_parse(data))

\* a macOS get_profile_data call answered from a built-in fallback profile
BuiltInDataReturned ==
    /\ MacFallbackCall
    /\ op.name = "get_profile_data"
    /\ NativeLookupFailed
    /\ op.res.ok

\* C28: every buffer get_profile_data returns from a built-in fallback
\* profile, and the icc_data of each of srgb, display_p3 and color_lcd, is 128
\* bytes long, is parsed by IccHeader::parse, and its header passes validate
\* with profile_size 128, device_class "mntr" and data_color_space "RGB ".
C28_BuiltInProfilesAreValidHeaders ==
    BuiltInDataReturned =>
        /\ BuiltInBuffer(op.res.val)
        /\ BuiltInBuffer(display_p3.icc_data)

\* the sRGB buffer returned for an external display without a colour space
C28_Witness ==
    /\ BuiltInDataReturned
    /\ ~op.arg.is_primary
    /\ ~sys.cs_ok
    /\ op.res.val = srgb.icc_data

\* C29: on Linux and Windows, when get_profile fails for a display,
\* get_profile_data for the same display and system fails with the same error
\* and reads no profile file; get_profile_data succeeds only when get_profile
\* succeeds with a file path.
C29_DataFailsAsProfileFails ==
    DataCall =>
        /\ ~Resolved.ok
              => /\ ~op.res.ok
                 /\ op.res.err.kind = Resolved.err.kind
                 /\ op.res.err.msg = Resolved.err.msg
                 /\ ~ReadAttempted
        /\ op.res.ok => (Resolved.ok /\ Resolved.val.file_path # None)

\* a Linux get_profile_data call for a display that no device matches
C29_Witness ==
    /\ DataCall
    /\ platform = "linux"
    /\ ~Resolved.ok
    /\ Resolved.err.kind = "DisplayNotFound"
    /\ ~op.res.ok
    /\ op.res.err.kind = "DisplayNotFound"

\* the i-th line of the parsed output, trimmed
LineAt(i) == trim(sys[i])

IsDeviceIdLine(i) == starts_with(LineAt(i), "Device ID:")

\* line j belongs to the block that the "Device ID:" line i opens
InBlockOf(i, j) == j > i /\ \A k \in (i + 1)..j : ~IsDeviceIdLine(k)

IsKindLine(j) == starts_with(LineAt(j), "Kind:")

Digits == {"0", "1", "2", "3", "4", "5", "6", "7", "8", "9"}

\* a line "Profile N: ..." with a number N
IsProfileLine(j) ==
    LET n == strip_prefix(before_colon(LineAt(j)), "Profile ")
    IN  /\ starts_with(LineAt(j), "Profile ")
        /\ contains(LineAt(j), ":")
        /\ Len(n) > 0
        /\ \A c \in 1..Len(n) : SubSeq(n, c, c) \in Digits

\* the id a "Profile N:" line carries: the text after "Profile N:"
ProfileIdOn(j) ==
    trim(SubSeq(LineAt(j), Len(before_colon(LineAt(j))) + 2, Len(LineAt(j))))

LineNumbers == [i \in 1..Len(sys) |-> i]

\* the Kind of a block is the one its last "Kind:" line gives
HasDisplayKind(i) ==
    \E j \in DOMAIN sys :
        /\ InBlockOf(i, j)
        /\ IsKindLine(j)
        /\ \A k \in DOMAIN sys : (InBlockOf(i, k) /\ IsKindLine(k)) => k <= j
        /\ contains(ascii_to_lowercase(strip_prefix(LineAt(j), "Kind:")), "display")

\* the "Device ID:" lines whose block has a Kind containing "display"
DisplayBlocks ==
    SelectSeq(LineNumbers, LAMBDA i : IsDeviceIdLine(i) /\ HasDisplayKind(i))

ProfileLinesOf(i) ==
    SelectSeq(LineNumbers, LAMBDA j : InBlockOf(i, j) /\ IsProfileLine(j))

ProfileIdsOf(i) ==
    [k \in 1..Len(ProfileLinesOf(i)) |-> ProfileIdOn(ProfileLinesOf(i)[k])]

\* C30: parse_colormgr_devices returns one device per "Device ID:" line whose
\* block has a Kind containing "display" (in any case), in input order, each
\* with the ids of the "Profile N:" lines of its own block in order; lines
\* before the first "Device ID:" line and non-display devices leave no trace.
C30_OneDevicePerDisplayBlock ==
    op.name = "parse_colormgr_devices" =>
        /\ op.res.ok
        /\ Len(op.res.val) = Len(DisplayBlocks)
        /\ \A k \in 1..Len(DisplayBlocks) :
              /\ op.res.val[k].id =
                    trim(strip_prefix(LineAt(DisplayBlocks[k]), "Device ID:"))
              /\ op.res.val[k].profiles = ProfileIdsOf(DisplayBlocks[k])

====
